---- MODULE Spec2Model ----
(***************************************************************************)
(* A model of the Archiver of core/src/archiver.rs: the segment selector,  *)
(* the sample hasher, the sampling-offset generator and the setup / prove  *)
(* control loop.                                                            *)
(*                                                                          *)
(* Values.  A blockhash is a small natural number, 0 being Hash::default(). *)
(* A signature is the sequence of its leading SigLen bytes (the only bytes  *)
(* the code under study reads one by one).  A digest is <<"sha256", s>>     *)
(* where s is the byte stream fed to the Hasher: the hash is taken to be    *)
(* collision free, and feeding it in pieces equals feeding it the           *)
(* concatenation, as SHA-256 does.  Natural numbers stay far below 2^31,    *)
(* the range of the model checker's integers; the bounds below see to it.   *)
(***************************************************************************)
EXTENDS Integers, Sequences, FiniteSets, TLC

VARIABLES
    sel,        \* one call of get_slot_from_signature: its inputs and its outcome
    sf,         \* one call of sample_file: the file, the offsets and the outcome
    tw,         \* two runs of Archiver::setup with the same storage keypair
    pv,         \* two prove-loop iterations side by side
    dl,         \* one call of download_from_archiver
    pin,        \* a PinnedVec, a clone of it and the registrar of pinned regions
    pk,         \* one call of to_packets_chunked, and a Packets::reset
    ps,         \* one call of Pubkey::from_str
    pc,         \* where the control-loop thread (t_archiver) stands
    meta,       \* ArchiverMeta
    loc,        \* the local variables of setup, run and the poller
    storage_keypair,
    exit,       \* the shared AtomicBool
    enc_file,   \* the file ledger.enc
    full,       \* the slots blocktree.is_full() holds of
    proofs,     \* the mining-proof transactions sent, oldest first
    iter,       \* prove-loop iterations started
    brk,        \* why the prove loop was left ("none" while it has not been)
    slot_chan,  \* the channel slot_sender -> slot_receiver: the values in flight
    proc,       \* the t_processor thread of create_request_processor
    reqs,       \* the channel s_reader -> r_reader: packet batches in flight
    replies     \* the packets sent on s_responder, oldest first

perfVars == <<pin, pk, ps>>
pureVars == <<sel, sf, tw, pv, dl, pin, pk, ps>>
threadVars == <<pc, meta, loc, storage_keypair, exit, enc_file, full, proofs, iter, brk>>
respVars == <<proc, reqs, replies>>
mainVars == <<pc, meta, loc, storage_keypair, exit, enc_file, full, proofs, iter, brk,
              slot_chan, proc, reqs, replies>>
vars == <<sel, sf, tw, pv, dl, pin, pk, ps, pc, meta, loc, storage_keypair, exit, enc_file, full,
          proofs, iter, brk, slot_chan, proc, reqs, replies>>

(***************************************************************************)
(* Bounds of the model.                                                     *)
(***************************************************************************)
MaxSmallSlot == 7       \* turn slots 0..MaxSmallSlot are enumerated (plus 1000)
MaxSmallSps == 3        \* slots_per_segment 0..MaxSmallSps is enumerated (plus 100)
MaxFileLen == 70        \* sample_file: file lengths 0..MaxFileLen bytes
MaxOffset == 3          \* sample_file: offsets 0..MaxOffset (plus 200000)
MaxOffsets == 2         \* sample_file: offset lists of length 0..MaxOffsets

(***************************************************************************)
(* Program constants.                                                       *)
(***************************************************************************)
SAMPLE_SIZE == 32       \* size_of::<Hash>()
SigLen == 4             \* leading signature bytes kept by the model

Min(a, b) == IF a < b THEN a ELSE b

(***************************************************************************)
(* solana_sdk::clock (not among the sources at hand): the number of        *)
(* complete segments before a slot, None when there is none.               *)
(***************************************************************************)
None == [some |-> FALSE, val |-> 0]
Some(v) == [some |-> TRUE, val |-> v]

get_complete_segment_from_slot(rooted_slot, slots_per_segment) ==
    IF rooted_slot \div slots_per_segment = 0
    THEN None
    ELSE Some(rooted_slot \div slots_per_segment)

(***************************************************************************)
(* get_slot_from_signature.  The four bytes are OR-ed at shifts 0, 8, 16    *)
(* and 24; a byte is below 2^8, so the OR of the shifted bytes is their     *)
(* sum.  Sequences are 1-based: signature_vec[k] of the code is sig[k+1].   *)
(* The outcome is "panic" where the code panics: the division by a zero     *)
(* slots_per_segment and the unwrap of None.                                *)
(***************************************************************************)
segment_index_of_fixed(sig) ==
    sig[1] + (sig[2] * 256) + (sig[3] * 65536) + (sig[4] * 16777216)

segment_index_of(sig) ==
    sig[1] + (sig[2] * 256) + (sig[2] * 65536) + (sig[3] * 16777216)

slot_of_index_plus_one(segment_index, max_segment_index, slots_per_segment) ==
    ((segment_index % max_segment_index) + 1) * slots_per_segment

slot_of_index(segment_index, max_segment_index, slots_per_segment) ==
    (segment_index % max_segment_index) * slots_per_segment

\* get_slot_from_signature with unwrap_or(1) in place of unwrap().
get_slot_from_signature_unwrap_or(sig, storage_turn, slots_per_segment) ==
    IF slots_per_segment = 0
    THEN [kind |-> "panic", slot |-> 0]
    ELSE LET max_segment_index ==
                 get_complete_segment_from_slot(storage_turn, slots_per_segment)
         IN  [kind |-> "ok",
              slot |-> slot_of_index(segment_index_of(sig),
                                     IF max_segment_index.some
                                     THEN max_segment_index.val
                                     ELSE 1,
                                     slots_per_segment)]

get_slot_from_signature(sig, storage_turn, slots_per_segment) ==
    IF slots_per_segment = 0
    THEN [kind |-> "panic", slot |-> 0]
    ELSE LET max_segment_index ==
                 get_complete_segment_from_slot(storage_turn, slots_per_segment)
         IN  IF ~max_segment_index.some
             THEN [kind |-> "panic", slot |-> 0]
             ELSE [kind |-> "ok",
                   slot |-> slot_of_index(segment_index_of(sig),
                                          max_segment_index.val,
                                          slots_per_segment)]

(***************************************************************************)
(* Files.  A file is [exists, len, data, bad_read]: whether it can be       *)
(* opened, its length in bytes, what its bytes are, and whether reading it  *)
(* fails with an I/O error.  data 1 and 2 are the files of the unit tests,  *)
(* the strings "12foobar" and "123456foobar" repeated; any other data is a  *)
(* stand-in for cipher text.  Positions count from 0.                       *)
(***************************************************************************)
Foobar8 == <<49, 50, 102, 111, 111, 98, 97, 114>>
Foobar12 == <<49, 50, 51, 52, 53, 54, 102, 111, 111, 98, 97, 114>>

FileByte(file, pos) ==
    IF file.data = 1 THEN Foobar8[(pos % 8) + 1]
    ELSE IF file.data = 2 THEN Foobar12[(pos % 12) + 1]
    ELSE ((file.data * 37) + (pos * 11) + ((pos \div 32) * 101)) % 256

\* What read(&mut buf) returns at position pos with a buffer of n bytes.
ReadSize(file, pos, n) ==
    IF pos >= file.len THEN 0 ELSE Min(n, file.len - pos)

ReadBytes(file, pos, n) ==
    [k \in 1..ReadSize(file, pos, n) |-> FileByte(file, pos + k - 1)]

(***************************************************************************)
(* sample_file.  Outcomes: "ok" with the digest, "err" with the message,   *)
(* "panic" where assert_eq!(size, buf.len()) fails.                         *)
(***************************************************************************)
ZeroHash == <<"zero", <<>>>>
HasherResult(stream) == <<"sha256", stream>>

SampleErr(msg) == [kind |-> "err", msg |-> msg, hash |-> ZeroHash]
SamplePanic == [kind |-> "panic", msg |-> "assert_eq", hash |-> ZeroHash]
SampleOk(stream) == [kind |-> "ok", msg |-> "", hash |-> HasherResult(stream)]

offset_too_large_no_sub(offset, file_len) ==
    offset > file_len \div SAMPLE_SIZE

offset_too_large(offset, file_len) ==
    offset > (file_len - SAMPLE_SIZE) \div SAMPLE_SIZE

seek_pos_unscaled(offset) == offset

seek_pos(offset) == offset * SAMPLE_SIZE

RECURSIVE sample_loop(_, _, _, _)
sample_loop(file, sample_offsets, i, stream) ==
    IF i > Len(sample_offsets)
    THEN SampleOk(stream)
    ELSE LET offset == sample_offsets[i]
         IN  IF offset_too_large(offset, file.len)
             THEN SampleErr("offset too large")
             ELSE IF file.bad_read
             THEN SampleErr("io")
             ELSE IF ReadSize(file, seek_pos(offset), SAMPLE_SIZE) # SAMPLE_SIZE
             THEN SamplePanic
             ELSE sample_loop(file, sample_offsets, i + 1,
                              stream \o ReadBytes(file, seek_pos(offset), SAMPLE_SIZE))

sample_file(file, sample_offsets) ==
    IF ~file.exists
    THEN SampleErr("open")
    ELSE IF file.len < SAMPLE_SIZE
    THEN SampleErr("file too short!")
    ELSE sample_loop(file, sample_offsets, 1, <<>>)

(***************************************************************************)
(* Bounds of the control-loop model.                                        *)
(***************************************************************************)
MaxTurnSlot == 4        \* turn slots 0..MaxTurnSlot in RPC responses
MaxSps == 2             \* slots_per_segment 1..MaxSps in RPC responses
MaxBlocks == 2          \* the segment's payload fills 1..MaxBlocks cipher blocks
MaxTurns == 2           \* storage turns the prove loop gets to see
MaxPolls == 1           \* rejected polls that are counted in the two-run setup

(***************************************************************************)
(* Program constants that come from modules not among the sources at hand. *)
(***************************************************************************)
NUM_STORAGE_SAMPLES == 4
CHACHA_BLOCK_SIZE == 64

\* Two storage keypairs; the default blockhash and two others; two RPC peers.
Keys == {1, 2}
Blockhashes == {0, 1, 2}
PeerIndexes == {0, 1}
\* The storage keypair the Archiver of the control-loop model is built with.
ArchiverKeys == {1}
TurnSlots == 0..MaxTurnSlot
SpsValues == 1..MaxSps

\* solana_sdk::clock (not among the sources at hand): the segment a slot is in.
get_segment_from_slot(rooted_slot, slots_per_segment) ==
    rooted_slot \div slots_per_segment

(***************************************************************************)
(* storage_keypair.sign(): a deterministic signature scheme (ed25519), a   *)
(* function of the key and the message.  Byte 2 stays below 128 so that    *)
(* the packed index fits the model checker's integers.                      *)
(***************************************************************************)
Sign(key, msg) ==
    [k \in 1..SigLen |-> ((key * 53) + (msg * 101) + (k * k * 17)) % 128]

ZeroSignature == [k \in 1..SigLen |-> 0]

(***************************************************************************)
(* ChaChaRng::from_seed(seed) and gen_range: a stream of words that is a   *)
(* function of the seed, each word reduced into [low, high).  gen_range     *)
(* panics unless low < high; the callers below guard that case.             *)
(***************************************************************************)
ChaChaRngWord(seed, i) ==
    ((((seed * 29) + 11) * ((i * 13) + 5)) + (i * i)) % 1009

gen_range(word, low, high) == low + (word % (high - low))

(***************************************************************************)
(* ArchiverMeta and the locals of setup, run and the poller.                *)
(***************************************************************************)
NoFile == [exists |-> FALSE, len |-> 0, data |-> 0, bad_read |-> FALSE]

MetaDefault ==
    [slot |-> 0, slots_per_segment |-> 0, signature |-> ZeroSignature,
     blockhash |-> 0, sampling_offsets |-> <<>>, sha_state |-> ZeroHash,
     num_chacha_blocks |-> 0, ledger_data_file_encrypted |-> ""]

\* What a call of redeem_rewards met: the answer to get_account, the decoded
\* state of the account, the number of validations it reports, and what
\* became of the claim_reward transaction.
RedeemNotCalled ==
    [account |-> "not called", state |-> "none", validations |-> 0,
     claim |-> "none"]

LocDefault ==
    [slots_per_segment |-> 0, segment_blockhash |-> 0, segment_slot |-> 0,
     node_index |-> 0, previous_blockhash |-> 0, caller |-> "none",
     turn_blockhash |-> 0, turn_slot |-> 0, poll_err |-> "none",
     rpc_peers |-> "unread", config_err |-> "none",
     submit |-> "none", panic |-> "none", redeem |-> RedeemNotCalled,
     current_slot |-> 0, tvu_removed |-> FALSE, late_proofs |-> 0]

\* The poller without its freshness check, and without its segment check.
poll_accepts_any_blockhash(turn_blockhash, turn_slot, slots_per_segment, previous_blockhash) ==
    get_segment_from_slot(turn_slot, slots_per_segment) # 0

poll_accepts_any_slot(turn_blockhash, turn_slot, slots_per_segment, previous_blockhash) ==
    turn_blockhash # previous_blockhash

\* poll_for_blockhash_and_slot, lines 827-831: the response is returned.
poll_accepts(turn_blockhash, turn_slot, slots_per_segment, previous_blockhash) ==
    /\ turn_blockhash # previous_blockhash
    /\ get_segment_from_slot(turn_slot, slots_per_segment) # 0

\* poll_for_segment, line 780.
segment_ready(turn_slot, slots_per_segment) ==
    get_complete_segment_from_slot(turn_slot, slots_per_segment).some

\* setup, lines 477-484: sign the turn blockhash, select the slot, fill meta.
setup_select_by_peer(m, l, key) ==
    LET signature == Sign(key, l.segment_blockhash + l.node_index)
        r == get_slot_from_signature(signature, l.segment_slot, l.slots_per_segment)
    IN  [m EXCEPT !.slot = r.slot,
                  !.slots_per_segment = l.slots_per_segment,
                  !.signature = signature,
                  !.blockhash = l.segment_blockhash]

setup_select(m, l, key) ==
    LET signature == Sign(key, l.segment_blockhash)
        r == get_slot_from_signature(signature, l.segment_slot, l.slots_per_segment)
    IN  [m EXCEPT !.slot = r.slot,
                  !.slots_per_segment = l.slots_per_segment,
                  !.signature = signature,
                  !.blockhash = l.segment_blockhash]

setup_select_panics(l, key) ==
    get_slot_from_signature(Sign(key, l.segment_blockhash), l.segment_slot,
                            l.slots_per_segment).kind = "panic"

\* run, line 393, with the turn the poller returned.
run_new_turn_resign(m, key, storage_blockhash, turn_slot) ==
    LET signature == Sign(key, storage_blockhash)
        r == get_slot_from_signature(signature, turn_slot, m.slots_per_segment)
    IN  [m EXCEPT !.blockhash = storage_blockhash,
                  !.signature = signature,
                  !.slot = r.slot]

run_new_turn(m, key, storage_blockhash, turn_slot) ==
    [m EXCEPT !.blockhash = storage_blockhash]

\* Offsets drawn among the bytes of the cipher blocks.
FreshOffsetsInBytes(seed, num_chacha_blocks) ==
    [i \in 1..NUM_STORAGE_SAMPLES |->
        gen_range(ChaChaRngWord(seed, i), 0, num_chacha_blocks * CHACHA_BLOCK_SIZE)]

\* create_sampling_offsets, lines 587-596.
FreshOffsets(seed, num_chacha_blocks) ==
    [i \in 1..NUM_STORAGE_SAMPLES |->
        gen_range(ChaChaRngWord(seed, i), 0, num_chacha_blocks)]

create_sampling_offsets_no_clear(m) ==
    [m EXCEPT !.sampling_offsets =
        m.sampling_offsets \o FreshOffsets(m.blockhash, m.num_chacha_blocks)]

create_sampling_offsets_once(m) ==
    IF m.sampling_offsets # <<>>
    THEN m
    ELSE [m EXCEPT !.sampling_offsets =
             FreshOffsets(m.blockhash, m.num_chacha_blocks)]

create_sampling_offsets(m) ==
    LET cleared == <<>>
        rng_seed == m.blockhash
    IN  [m EXCEPT !.sampling_offsets =
            cleared \o FreshOffsets(rng_seed, m.num_chacha_blocks)]

(***************************************************************************)
(* chacha_cbc_encrypt_ledger (not among the sources at hand): the payload  *)
(* of the segment's shreds, zero-padded to whole cipher blocks, encrypted  *)
(* under the IV; the cipher text is a function of the payload and the IV.  *)
(***************************************************************************)
RoundUpToBlock(n) ==
    ((n + CHACHA_BLOCK_SIZE - 1) \div CHACHA_BLOCK_SIZE) * CHACHA_BLOCK_SIZE

CipherText(payload_len, slot, ivec) ==
    [exists |-> TRUE, len |-> RoundUpToBlock(payload_len),
     data |-> 3 + ((ivec[1] + (slot * 5) + payload_len) % 5),
     bad_read |-> FALSE]

\* encrypt_ledger, lines 563-577, on success.
encrypt_ledger(m, num_encrypted_bytes) ==
    [m EXCEPT !.ledger_data_file_encrypted = "ledger.enc",
              !.num_chacha_blocks = num_encrypted_bytes \div CHACHA_BLOCK_SIZE]

\* submit_mining_proof, lines 700-706: the instruction that is sent.
\* The instruction built with the slot where the segment index belongs.
mining_proof_slot_as_index(m) ==
    [sha_state |-> m.sha_state,
     segment_index |-> m.slot,
     signature |-> m.signature,
     blockhash |-> m.blockhash]

mining_proof(m) ==
    [sha_state |-> m.sha_state,
     segment_index |-> get_segment_from_slot(m.slot, m.slots_per_segment),
     signature |-> m.signature,
     blockhash |-> m.blockhash]

(***************************************************************************)
(* The slot responder, lines 153-179.  A request packet is the sequence of *)
(* its bytes: the variant tag of ArchiverRequest (0 is GetSlotHeight)       *)
(* followed by the sender's address, one byte here.  bincode and            *)
(* Packet::from_data are not among the sources at hand: a u64 is encoded    *)
(* as its 8 bytes, least significant first.                                 *)
(***************************************************************************)
Addrs == {1, 2}

GetSlotHeightTag == 0

ReqOk(from) == [ok |-> TRUE, from |-> from]
ReqErr == [ok |-> FALSE, from |-> 0]

\* limited_deserialize::<ArchiverRequest>, perf/src/packet.rs lines 113-120.
limited_deserialize(data) ==
    IF Len(data) >= 2 /\ data[1] = GetSlotHeightTag /\ data[2] \in Addrs
    THEN ReqOk(data[2])
    ELSE ReqErr

RECURSIVE Pow256(_)
Pow256(k) == IF k = 0 THEN 1 ELSE 256 * Pow256(k - 1)

bincode_u64(v) == [i \in 1..8 |-> IF i <= 3 THEN (v \div Pow256(i - 1)) % 256 ELSE 0]

bincode_u64_decode(data) ==
    IF Len(data) # 8 \/ \E i \in 4..8 : data[i] # 0
    THEN -1
    ELSE data[1] + (data[2] * 256) + (data[3] * 65536)

\* Packet::from_data(&from, slot).
packet_from_data(from, v) == [addr |-> from, data |-> bincode_u64(v)]

\* The packets of one batch answered with the address of the batch's last
\* request.
RECURSIVE process_packets_last_addr(_, _)
process_packets_last_addr(packets, slot) ==
    IF packets = <<>>
    THEN <<>>
    ELSE LET req == limited_deserialize(Head(packets))
             last == limited_deserialize(packets[Len(packets)])
         IN  (IF req.ok THEN <<packet_from_data(last.from, slot)>> ELSE <<>>)
                 \o process_packets_last_addr(Tail(packets), slot)

\* A loop over the batch that is left at the first packet that fails to
\* deserialize.
RECURSIVE process_packets_stop_at_err(_, _)
process_packets_stop_at_err(packets, slot) ==
    IF packets = <<>>
    THEN <<>>
    ELSE LET req == limited_deserialize(Head(packets))
         IN  IF req.ok
             THEN <<packet_from_data(req.from, slot)>>
                      \o process_packets_stop_at_err(Tail(packets), slot)
             ELSE <<>>

\* Lines 164-176: the replies to the packets of one batch, in order.
RECURSIVE process_packets(_, _)
process_packets(packets, slot) ==
    IF packets = <<>>
    THEN <<>>
    ELSE LET req == limited_deserialize(Head(packets))
         IN  (IF req.ok THEN <<packet_from_data(req.from, slot)>> ELSE <<>>)
                 \o process_packets(Tail(packets), slot)

(***************************************************************************)
(* The values the variables of a part of the model have while another part *)
(* is checked.                                                              *)
(***************************************************************************)
SelIdle == [sig |-> <<0, 0, 0, 0>>, ts |-> 0, sps |-> 0, done |-> FALSE,
            kind |-> "none", slot |-> 0]

SfIdle == [file |-> NoFile, offsets |-> <<>>, done |-> FALSE,
           res |-> SampleErr("none")]

TwRunIdle == [pc |-> "get_segment_config", loc |-> LocDefault,
              meta |-> MetaDefault, polls |-> 0]

TwIdle == [key |-> 0, run |-> [i \in 1..2 |-> TwRunIdle]]

PvRunIdle == [pc |-> "idle", meta |-> MetaDefault, file |-> NoFile]

PvIdle == [i \in 1..2 |-> PvRunIdle]

\* t_processor before it has run: it is about to call poll_for_slot.  `got`
\* tells whether poll_for_slot returned a received slot, `handled` lists the
\* request packets the loop has gone through.
ProcStart == [pc |-> "poll_for_slot", slot |-> 0, got |-> FALSE, handled |-> <<>>]

DlIdle == [pc |-> "idle", slots_per_segment |-> 0, start_slot |-> 0, tries |-> 0,
           attempts |-> 0, full |-> {}, res |-> "none", ret |-> 0,
           reply |-> <<>>, exit |-> FALSE, t_receiver |-> "none"]

\* No PinnedVec yet, and an empty registrar.
NoVec == [live |-> FALSE, ptr |-> 0, cap |-> 0, elems |-> <<>>,
          pinned |-> FALSE, pinnable |-> FALSE]

PinIdle == [pc |-> "idle", api |-> FALSE, v |-> NoVec, o |-> NoVec, ref |-> <<>>,
            reg |-> {}, op |-> "none", changed |-> FALSE, calls |-> <<>>]

PkIdle ==
    [pc |-> "idle", fn |-> "none", xs |-> <<>>, chunks |-> 0, at |-> 0,
     out |-> <<>>, reset |-> 0, p |-> <<>>]

NoParse == [kind |-> "none", bytes |-> <<>>]

PsIdle ==
    [pc |-> "idle", s |-> <<>>, key |-> <<>>, edits |-> 0, res |-> NoParse]

PerfIdle ==
    /\ pin = PinIdle
    /\ pk = PkIdle
    /\ ps = PsIdle

RespIdle ==
    /\ slot_chan = <<>>
    /\ proc = ProcStart
    /\ reqs = <<>>
    /\ replies = <<>>

MainIdle ==
    /\ RespIdle
    /\ pc = "idle"
    /\ meta = MetaDefault
    /\ loc = LocDefault
    /\ storage_keypair = 0
    /\ exit = FALSE
    /\ enc_file = NoFile
    /\ full = {}
    /\ proofs = <<>>
    /\ iter = 0
    /\ brk = "none"

(***************************************************************************)
(* The selector alone: Init draws a signature, a turn slot and a segment   *)
(* width, SelCall applies get_slot_from_signature.                          *)
(***************************************************************************)
SelBytes0 == {0, 7, 255}
SelBytes1 == {0, 3, 255}
SelBytes2 == {0, 5, 127}
SelBytes3 == {0, 5}
SelTurnSlots == (0..MaxSmallSlot) \cup {1000}
SelSps == (0..MaxSmallSps) \cup {100}

SelInit ==
    /\ \E b0 \in SelBytes0, b1 \in SelBytes1, b2 \in SelBytes2, b3 \in SelBytes3,
          ts \in SelTurnSlots, sps \in SelSps :
          sel = [SelIdle EXCEPT !.sig = <<b0, b1, b2, b3>>, !.ts = ts, !.sps = sps]
    /\ sf = SfIdle /\ tw = TwIdle /\ pv = PvIdle
    /\ dl = DlIdle
    /\ MainIdle
    /\ PerfIdle

SelCall ==
    /\ ~sel.done
    /\ LET r == get_slot_from_signature(sel.sig, sel.ts, sel.sps)
       IN  sel' = [sel EXCEPT !.done = TRUE, !.kind = r.kind, !.slot = r.slot]
    /\ UNCHANGED <<sf, tw, pv, dl, mainVars, perfVars>>

SelNext == SelCall

SpecSel == SelInit /\ [][SelNext]_vars

(***************************************************************************)
(* sample_file alone: Init draws a file and an offset list, SfCall applies *)
(* sample_file.                                                             *)
(***************************************************************************)
SfOffsetValues == (0..MaxOffset) \cup {200000}

SfOffsetLists ==
    UNION {[1..n -> SfOffsetValues] : n \in 0..MaxOffsets}

SfFiles ==
    {[exists |-> e, len |-> l, data |-> d, bad_read |-> b] :
        e \in BOOLEAN, l \in 0..MaxFileLen, d \in {1, 2}, b \in BOOLEAN}

SfInit ==
    /\ \E f \in SfFiles, offs \in SfOffsetLists :
          sf = [SfIdle EXCEPT !.file = f, !.offsets = offs]
    /\ sel = SelIdle /\ tw = TwIdle /\ pv = PvIdle
    /\ dl = DlIdle
    /\ MainIdle
    /\ PerfIdle

SfCall ==
    /\ ~sf.done
    /\ sf' = [sf EXCEPT !.done = TRUE, !.res = sample_file(sf.file, sf.offsets)]
    /\ UNCHANGED <<sel, tw, pv, dl, mainVars, perfVars>>

SfNext == SfCall

SpecSample == SfInit /\ [][SfNext]_vars

(***************************************************************************)
(* Two runs of setup, lines 454-484, with the same storage keypair.  Each  *)
(* run draws its own RPC peers and its own RPC responses, and is polled    *)
(* its own number of times.                                                 *)
(***************************************************************************)
TwInit ==
    /\ \E k \in Keys : tw = [TwIdle EXCEPT !.key = k]
    /\ sel = SelIdle /\ sf = SfIdle /\ pv = PvIdle
    /\ dl = DlIdle
    /\ MainIdle
    /\ PerfIdle

\* get_segment_config, lines 738-760, on success.
TwGetSegmentConfig(i) ==
    /\ tw.run[i].pc = "get_segment_config"
    /\ \E node_index \in PeerIndexes, sps \in SpsValues :
          tw' = [tw EXCEPT !.run[i].pc = "poll_for_segment",
                           !.run[i].loc.node_index = node_index,
                           !.run[i].loc.slots_per_segment = sps]
    /\ UNCHANGED <<sel, sf, pv, dl, mainVars, perfVars>>

\* One round of poll_for_segment / poll_for_blockhash_and_slot with a peer.
TwPoll(i) ==
    /\ tw.run[i].pc = "poll_for_segment"
    /\ \E node_index \in PeerIndexes, bh \in Blockhashes, ts \in TurnSlots :
          LET l == tw.run[i].loc
          IN  IF /\ poll_accepts(bh, ts, l.slots_per_segment, 0)
                 /\ segment_ready(ts, l.slots_per_segment)
              THEN tw' = [tw EXCEPT !.run[i].pc = "select",
                                    !.run[i].loc.node_index = node_index,
                                    !.run[i].loc.segment_blockhash = bh,
                                    !.run[i].loc.segment_slot = ts]
              ELSE /\ tw.run[i].polls < MaxPolls
                   /\ tw' = [tw EXCEPT !.run[i].polls = @ + 1]
    /\ UNCHANGED <<sel, sf, pv, dl, mainVars, perfVars>>

TwSelect(i) ==
    /\ tw.run[i].pc = "select"
    /\ tw' = [tw EXCEPT
                !.run[i].pc = "selected",
                !.run[i].meta = setup_select(tw.run[i].meta, tw.run[i].loc, tw.key)]
    /\ UNCHANGED <<sel, sf, pv, dl, mainVars, perfVars>>

TwNext == \E i \in 1..2 : TwGetSegmentConfig(i) \/ TwPoll(i) \/ TwSelect(i)

SpecSetup2 == TwInit /\ [][TwNext]_vars

(***************************************************************************)
(* Two prove-loop iterations, lines 363-372, side by side.  Each starts    *)
(* from a meta of its own: its signature and slot, what the iteration      *)
(* before left in sampling_offsets and sha_state, its blockhash, and its   *)
(* encrypted file.                                                          *)
(***************************************************************************)
PvStaleOffsets(k) == IF k = 1 THEN <<>> ELSE [i \in 1..NUM_STORAGE_SAMPLES |-> 0]

PvStartMeta(k, bh, ncb) ==
    [MetaDefault EXCEPT !.signature = Sign(k, 1),
                        !.slot = k,
                        !.slots_per_segment = 1,
                        !.blockhash = bh,
                        !.num_chacha_blocks = ncb,
                        !.sampling_offsets = PvStaleOffsets(k),
                        !.sha_state = IF k = 1 THEN ZeroHash
                                      ELSE HasherResult(<<k>>)]

PvStarts ==
    {[pc |-> "create_sampling_offsets",
      meta |-> PvStartMeta(k, bh, ncb),
      file |-> [exists |-> TRUE, len |-> ncb * CHACHA_BLOCK_SIZE, data |-> d,
                bad_read |-> FALSE]] :
        k \in Keys, bh \in Blockhashes, ncb \in 1..MaxBlocks, d \in {3, 4}}

PvInit ==
    /\ pv \in [1..2 -> PvStarts]
    /\ sel = SelIdle /\ sf = SfIdle /\ tw = TwIdle
    /\ dl = DlIdle
    /\ MainIdle
    /\ PerfIdle

PvCreateSamplingOffsets(i) ==
    /\ pv[i].pc = "create_sampling_offsets"
    /\ pv' = [pv EXCEPT ![i].pc = "sample",
                        ![i].meta = create_sampling_offsets(pv[i].meta)]
    /\ UNCHANGED <<sel, sf, tw, dl, mainVars, perfVars>>

PvSample(i) ==
    /\ pv[i].pc = "sample"
    /\ LET res == sample_file(pv[i].file, pv[i].meta.sampling_offsets)
       IN  pv' = [pv EXCEPT
                    ![i].pc = IF res.kind = "ok" THEN "sampled" ELSE "failed",
                    ![i].meta.sha_state = IF res.kind = "ok" THEN res.hash ELSE @]
    /\ UNCHANGED <<sel, sf, tw, dl, mainVars, perfVars>>

PvNext == \E i \in 1..2 : PvCreateSamplingOffsets(i) \/ PvSample(i)

SpecProve2 == PvInit /\ [][PvNext]_vars

(***************************************************************************)
(* download_from_archiver, lines 849-948, alone.  Init draws the segment   *)
(* width and the slots the caller's blocktree already holds; the other     *)
(* archiver answers, or does not, at every request.                         *)
(***************************************************************************)
MaxStartSlot == 1       \* the other archiver's segment starts at 0..MaxStartSlot

DOWNLOAD_ATTEMPTS == 120
SLOT_REQUEST_ATTEMPTS == 10

DlSlots == 0..(MaxStartSlot + MaxSps)

DlRange(start_slot, slots_per_segment) ==
    start_slot..(start_slot + slots_per_segment - 1)

\* A check of the first slot of the range only.
segment_complete_first_slot(start_slot, slots_per_segment, fullSlots) ==
    start_slot \in fullSlots

\* segment_complete, lines 950-961.
segment_complete(start_slot, slots_per_segment, fullSlots) ==
    \A slot \in DlRange(start_slot, slots_per_segment) : slot \in fullSlots

DlInit ==
    /\ \E sps \in SpsValues, f \in SUBSET DlSlots :
          dl = [DlIdle EXCEPT !.pc = "get_archiver_segment_slot",
                              !.slots_per_segment = sps, !.full = f]
    /\ sel = SelIdle /\ sf = SfIdle /\ tw = TwIdle /\ pv = PvIdle
    /\ MainIdle
    /\ PerfIdle

\* What recv_from yields at line 974: nothing within the read timeout (the
\* empty sequence), a bincoded slot, or a packet too short to be a u64.
SlotReplies ==
    {<<>>, <<7>>} \cup {bincode_u64(slot) : slot \in 0..MaxStartSlot}

\* Lines 976-979: bincode deserialization of the reply as a u64.
slot_reply_decodes(reply) == bincode_u64_decode(reply) >= 0

\* get_archiver_segment_slot that gives up at the first failed attempt.
DlGetArchiverSegmentSlotNoRetry ==
    /\ dl.pc = "get_archiver_segment_slot"
    /\ \E reply \in SlotReplies :
          dl' = IF slot_reply_decodes(reply)
                THEN [dl EXCEPT !.pc = "download", !.tries = @ + 1,
                                !.reply = reply,
                                !.start_slot = bincode_u64_decode(reply),
                                !.t_receiver = "running"]
                ELSE [dl EXCEPT !.pc = "panicked", !.tries = @ + 1,
                                !.reply = reply,
                                !.res = "Couldn't get segment slot from archiver!"]
    /\ UNCHANGED <<sel, sf, tw, pv, mainVars, perfVars>>

\* get_archiver_segment_slot, lines 963-986: one round of the loop of line
\* 971.  The request is sent (send_to(..).unwrap() panics if the send
\* fails), a reply is awaited; a reply that decodes is returned, anything
\* else is followed by the sleep of line 982.  After the tenth round, the
\* panic of line 985.  With the slot in hand download_from_archiver makes its
\* exit flag (false) and spawns the receiver thread, lines 860-869.
DlGetArchiverSegmentSlot ==
    /\ dl.pc = "get_archiver_segment_slot"
    /\ IF dl.tries = SLOT_REQUEST_ATTEMPTS
       THEN dl' = [dl EXCEPT !.pc = "panicked",
                             !.res = "Couldn't get segment slot from archiver!"]
       ELSE \/ \E reply \in SlotReplies :
                  dl' = IF slot_reply_decodes(reply)
                        THEN [dl EXCEPT !.pc = "download", !.tries = @ + 1,
                                        !.reply = reply,
                                        !.start_slot = bincode_u64_decode(reply),
                                        !.t_receiver = "running"]
                        ELSE [dl EXCEPT !.tries = @ + 1, !.reply = reply]
            \/ dl' = [dl EXCEPT !.pc = "panicked", !.res = "send_to unwrap"]
    /\ UNCHANGED <<sel, sf, tw, pv, mainVars, perfVars>>

\* One round of the loop of lines 881-937: repair requests are sent, packets
\* are received (or not) and their shreds inserted, the segment is checked.
\* An error of insert_shreds leaves the function at the `?` of line 930.
DlAttempt ==
    /\ dl.pc = "download"
    /\ \/ \E shreds \in SUBSET (DlSlots \ dl.full) :
             LET f == dl.full \cup shreds
                 n == dl.attempts + 1
             IN  dl' = [dl EXCEPT
                          !.full = f,
                          !.attempts = n,
                          !.pc = IF \/ segment_complete(dl.start_slot,
                                                         dl.slots_per_segment, f)
                                    \/ n = DOWNLOAD_ATTEMPTS
                                 THEN "after_loop"
                                 ELSE "download"]
       \/ dl' = [dl EXCEPT !.pc = "returned", !.res = "insert_shreds error"]
    /\ UNCHANGED <<sel, sf, tw, pv, mainVars, perfVars>>

\* Lines 938-947: the receiver is stopped and joined, the segment is checked
\* once more.
DlFinish ==
    /\ dl.pc = "after_loop"
    /\ LET stopped == [dl EXCEPT !.exit = TRUE, !.t_receiver = "joined"]
       IN  dl' = IF segment_complete(dl.start_slot, dl.slots_per_segment, dl.full)
                 THEN [stopped EXCEPT !.pc = "returned", !.res = "ok",
                                      !.ret = dl.start_slot]
                 ELSE [stopped EXCEPT !.pc = "returned",
                                      !.res = "Unable to download the full segment"]
    /\ UNCHANGED <<sel, sf, tw, pv, mainVars, perfVars>>

DlNext == DlGetArchiverSegmentSlot \/ DlAttempt \/ DlFinish

SpecDownload == DlInit /\ [][DlNext]_vars

(***************************************************************************)
(* PinnedVec, perf/src/cuda_runtime.rs.  A Vec is its buffer (address and  *)
(* capacity) and its elements; address 0 is the dangling pointer of a Vec  *)
(* without a buffer.  The registrar is the set of regions registered with  *)
(* cudaHostRegister.  A world `w` holds the PinnedVec `v`, a second one    *)
(* `o` made by clone, the registrar `reg`, whether perf_libs::api() is     *)
(* Some, and the registrar calls of the operation under way.  When pin or  *)
(* unpin panics, what follows in the operation is not executed.             *)
(***************************************************************************)
MaxVecCap == 2          \* capacities, and so lengths, 0..MaxVecCap

VecElems == {10, 50}
MemAddrs == {1, 2, 3}

\* The address of the Vec inside the PinnedVec (not one of a heap buffer).
HeaderAddr == 9

Region(x) == [ptr |-> x.ptr, cap |-> x.cap]

Panicked(w) == w.pc = "panicked"

\* unpin, lines 43-54: cudaHostUnregister(addr); an error panics.  The
\* registrar answers with an error for an address that is not registered.
unpin(w, addr) ==
    IF Panicked(w) \/ ~w.api
    THEN w
    ELSE LET known == \E r \in w.reg : r.ptr = addr
             call == [f |-> "unpin", ptr |-> addr, registered |-> known]
         IN  IF known
             THEN [w EXCEPT !.reg = {r \in @ : r.ptr # addr},
                            !.calls = Append(@, call)]
             ELSE [w EXCEPT !.calls = Append(@, call), !.pc = "panicked"]

\* pin, lines 20-41: cudaHostRegister(as_mut_ptr, capacity * size_of::<T>());
\* an error panics.  The registrar answers with an error for an address
\* that is registered already.
pin_region(w, x) ==
    IF Panicked(w) \/ ~w.api
    THEN w
    ELSE LET known == \E r \in w.reg : r.ptr = x.ptr
             call == [f |-> "pin", ptr |-> x.ptr, registered |-> known]
         IN  IF known
             THEN [w EXCEPT !.calls = Append(@, call), !.pc = "panicked"]
             ELSE [w EXCEPT !.reg = @ \cup {Region(x)},
                            !.calls = Append(@, call)]

\* A statement that follows a call of pin or unpin.
SetPinned(w, b) ==
    IF Panicked(w) THEN w ELSE [w EXCEPT !.v.pinned = b]

\* Vec::reserve and the growth of push, resize and append: nothing happens
\* while the capacity suffices; otherwise the buffer is one of capacity
\* `ncap` at `nptr` (the old address if the allocator grew it in place), and
\* the elements are those it had.
vec_grow(x, required, nptr, ncap) ==
    IF required <= x.cap THEN x ELSE [x EXCEPT !.ptr = nptr, !.cap = ncap]

Fill(n, elem) == [i \in 1..n |-> elem]

\* Vec::truncate and Vec::resize on the elements.
vec_truncate(elems, size) ==
    IF size < Len(elems) THEN SubSeq(elems, 1, size) ELSE elems

vec_resize(elems, size, elem) ==
    IF size <= Len(elems)
    THEN SubSeq(elems, 1, size)
    ELSE elems \o Fill(size - Len(elems), elem)

\* prepare_realloc, lines 212-221.
prepare_realloc(w, new_size) ==
    IF w.v.pinned /\ w.v.cap < new_size
    THEN SetPinned(unpin(w, w.v.ptr), FALSE)
    ELSE w

\* check_ptr that looks at the address only.
check_ptr_address_only(w, old_ptr, old_capacity) ==
    IF Panicked(w)
    THEN w
    ELSE IF w.api /\ w.v.pinnable /\ w.v.ptr # old_ptr
    THEN LET w1 == IF w.v.pinned THEN unpin(w, old_ptr) ELSE w
         IN  SetPinned(pin_region(w1, w1.v), TRUE)
    ELSE w

\* check_ptr, lines 256-274.
check_ptr(w, old_ptr, old_capacity) ==
    IF Panicked(w)
    THEN w
    ELSE IF w.api /\ w.v.pinnable /\ (w.v.ptr # old_ptr \/ w.v.cap # old_capacity)
    THEN LET w1 == IF w.v.pinned THEN unpin(w, old_ptr) ELSE w
         IN  SetPinned(pin_region(w1, w1.v), TRUE)
    ELSE w

\* The Vec operation between prepare_realloc and check_ptr.
WithVec(w, x) == IF Panicked(w) THEN w ELSE [w EXCEPT !.v = x]

\* push, lines 223-227.
pinned_push(w, x, nptr, ncap) ==
    LET w1 == prepare_realloc(w, Len(w.v.elems) + 1)
        grown == vec_grow(w1.v, Len(w1.v.elems) + 1, nptr, ncap)
        w2 == WithVec(w1, [grown EXCEPT !.elems = Append(@, x)])
    IN  check_ptr(w2, w.v.ptr, w.v.cap)

\* truncate that leaves the elements alone.
pinned_truncate_nothing(w, size) == w

\* truncate, lines 229-231.
pinned_truncate(w, size) ==
    [w EXCEPT !.v.elems = vec_truncate(@, size)]

\* resize, lines 233-237.
pinned_resize(w, size, elem, nptr, ncap) ==
    LET w1 == prepare_realloc(w, size)
        grown == vec_grow(w1.v, size, nptr, ncap)
        w2 == WithVec(w1, [grown EXCEPT !.elems = vec_resize(@, size, elem)])
    IN  check_ptr(w2, w.v.ptr, w.v.cap)

\* append, lines 239-243.
pinned_append(w, other, nptr, ncap) ==
    LET new_size == Len(w.v.elems) + Len(other)
        w1 == prepare_realloc(w, new_size)
        grown == vec_grow(w1.v, new_size, nptr, ncap)
        w2 == WithVec(w1, [grown EXCEPT !.elems = @ \o other])
    IN  check_ptr(w2, w.v.ptr, w.v.cap)

\* append_pinned, lines 245-249: the elements of `other` move over; `other`
\* keeps its buffer and its flags.
pinned_append_pinned(w, nptr, ncap) ==
    LET new_size == Len(w.v.elems) + Len(w.o.elems)
        w1 == prepare_realloc(w, new_size)
        grown == vec_grow(w1.v, new_size, nptr, ncap)
        w2 == IF Panicked(w1)
              THEN w1
              ELSE [w1 EXCEPT !.v = [grown EXCEPT !.elems = @ \o w.o.elems],
                              !.o.elems = <<>>]
    IN  check_ptr(w2, w.v.ptr, w.v.cap)

\* reserve_and_pin, lines 160-173.  `unpin(&mut self.x)` at line 163 hands
\* unpin the address of the Vec, not that of its buffer.
reserve_and_pin(w, size, nptr, ncap) ==
    LET w1 == IF w.v.cap < size
              THEN LET w0 == IF w.v.pinned
                             THEN SetPinned(unpin(w, HeaderAddr), FALSE)
                             ELSE w
                   IN  WithVec(w0, vec_grow(w0.v, Len(w0.v.elems) + size, nptr, ncap))
              ELSE w
        w2 == IF Panicked(w1) THEN w1 ELSE [w1 EXCEPT !.v.pinnable = TRUE]
    IN  IF ~w2.v.pinned THEN SetPinned(pin_region(w2, w2.v), TRUE) ELSE w2

\* clone, lines 277-298: the clone has a buffer of its own, of the capacity
\* its elements need, and is pinned if the original is.
pinned_clone(w, nptr) ==
    LET x == [live |-> TRUE, ptr |-> IF w.v.elems = <<>> THEN 0 ELSE nptr,
              cap |-> Len(w.v.elems), elems |-> w.v.elems,
              pinned |-> w.v.pinned, pinnable |-> w.v.pinnable]
        w1 == IF w.v.pinned THEN pin_region(w, x) ELSE w
    IN  IF Panicked(w1) THEN w1 ELSE [w1 EXCEPT !.o = x]

\* drop, lines 300-306.
pinned_drop(w, x) == IF x.pinned THEN unpin(w, x.ptr) ELSE w

\* The addresses the allocator can give a buffer of `x`: where `x` is now (it
\* is grown in place), or an address that no live buffer has.
FreeAddrs(w, x) ==
    {a \in MemAddrs :
        /\ ~(w.v.live /\ w.v.cap > 0 /\ w.v.ptr = a /\ w.v.ptr # x.ptr)
        /\ ~(w.o.live /\ w.o.cap > 0 /\ w.o.ptr = a /\ w.o.ptr # x.ptr)}

\* The buffers a Vec that needs room for `required` elements can end up with:
\* the one it has, if that will do.
NewCaps(x, required) ==
    IF required <= x.cap THEN {x.cap} ELSE required..MaxVecCap

NewAddrs(w, x, required) ==
    IF required <= x.cap THEN {x.ptr} ELSE FreeAddrs(w, x)

\* An operation on `v`: the calls are those of this operation, and `changed`
\* tells whether it left the buffer of `v` at another address or with
\* another capacity.
Operation(w, name) ==
    [w EXCEPT !.op = name,
              !.changed = (w.v.ptr # pin.v.ptr \/ w.v.cap # pin.v.cap)]

Begin == [pin EXCEPT !.calls = <<>>]

\* PinnedVec::with_capacity(capacity), lines 187-194, with or without a DMA
\* backend.
PinInit ==
    /\ \E api \in BOOLEAN, capacity \in 0..MaxVecCap :
          pin = [PinIdle EXCEPT
                   !.pc = "live", !.api = api,
                   !.v = [live |-> TRUE, ptr |-> IF capacity = 0 THEN 0 ELSE 1,
                          cap |-> capacity, elems |-> <<>>,
                          pinned |-> FALSE, pinnable |-> FALSE]]
    /\ pk = PkIdle /\ ps = PsIdle
    /\ sel = SelIdle /\ sf = SfIdle /\ tw = TwIdle /\ pv = PvIdle /\ dl = DlIdle
    /\ MainIdle

PinOthersUnchanged == UNCHANGED <<sel, sf, tw, pv, dl, pk, ps, mainVars>>

\* set_pinnable, lines 175-177.
PinSetPinnable ==
    /\ pin.pc = "live"
    /\ pin' = [Begin EXCEPT !.v.pinnable = TRUE, !.op = "set_pinnable",
                            !.changed = FALSE]
    /\ PinOthersUnchanged

PinReserveAndPin ==
    /\ pin.pc = "live"
    /\ \E size \in 1..MaxVecCap :
       \E ncap \in NewCaps(pin.v, Len(pin.v.elems) + size),
          nptr \in NewAddrs(pin, pin.v, Len(pin.v.elems) + size) :
          /\ pin.v.cap < size => ncap >= Len(pin.v.elems) + size
          /\ pin' = Operation(reserve_and_pin(Begin, size, nptr, ncap), "reserve_and_pin")
    /\ PinOthersUnchanged

PinPush ==
    /\ pin.pc = "live"
    /\ Len(pin.v.elems) < MaxVecCap
    /\ \E x \in VecElems, ncap \in NewCaps(pin.v, Len(pin.v.elems) + 1),
          nptr \in NewAddrs(pin, pin.v, Len(pin.v.elems) + 1) :
          /\ pin' = [Operation(pinned_push(Begin, x, nptr, ncap), "push")
                       EXCEPT !.ref = Append(@, x)]
    /\ PinOthersUnchanged

PinTruncate ==
    /\ pin.pc = "live"
    /\ \E size \in 0..MaxVecCap :
          pin' = [Operation(pinned_truncate(Begin, size), "truncate")
                    EXCEPT !.ref = IF size < Len(@) THEN SubSeq(@, 1, size) ELSE @]
    /\ PinOthersUnchanged

PinResize ==
    /\ pin.pc = "live"
    /\ \E size \in 0..MaxVecCap, elem \in VecElems :
       \E ncap \in NewCaps(pin.v, size), nptr \in NewAddrs(pin, pin.v, size) :
          /\ pin' = [Operation(pinned_resize(Begin, size, elem, nptr, ncap), "resize")
                       EXCEPT !.ref = [i \in 1..size |->
                                          IF i <= Len(@) THEN @[i] ELSE elem]]
    /\ PinOthersUnchanged

PinAppend ==
    /\ pin.pc = "live"
    /\ \E other \in {<<>>, <<10>>, <<50, 10>>} :
       \E ncap \in NewCaps(pin.v, Len(pin.v.elems) + Len(other)),
          nptr \in NewAddrs(pin, pin.v, Len(pin.v.elems) + Len(other)) :
          /\ Len(pin.v.elems) + Len(other) <= MaxVecCap
          /\ pin' = [Operation(pinned_append(Begin, other, nptr, ncap), "append")
                       EXCEPT !.ref = @ \o other]
    /\ PinOthersUnchanged

PinAppendPinned ==
    /\ pin.pc = "live" /\ pin.o.live
    /\ \E ncap \in NewCaps(pin.v, Len(pin.v.elems) + Len(pin.o.elems)),
          nptr \in NewAddrs(pin, pin.v, Len(pin.v.elems) + Len(pin.o.elems)) :
          /\ Len(pin.v.elems) + Len(pin.o.elems) <= MaxVecCap
          /\ pin' = [Operation(pinned_append_pinned(Begin, nptr, ncap), "append_pinned")
                       EXCEPT !.ref = @ \o pin.o.elems]
    /\ PinOthersUnchanged

\* The clone of a pinned PinnedVec without elements would register an empty
\* region; clones are taken of vectors that have elements.
PinClone ==
    /\ pin.pc = "live" /\ ~pin.o.live
    /\ pin.v.elems # <<>>
    /\ \E nptr \in FreeAddrs(pin, NoVec) :
          pin' = Operation(pinned_clone(Begin, nptr), "clone")
    /\ PinOthersUnchanged

\* The clone is dropped.
PinDropClone ==
    /\ pin.pc \in {"live", "dropped"} /\ pin.o.live
    /\ pin' = [pinned_drop(Begin, pin.o) EXCEPT !.o = NoVec, !.op = "drop clone",
                                                !.changed = FALSE]
    /\ PinOthersUnchanged

\* The PinnedVec is dropped.
PinDrop ==
    /\ pin.pc = "live"
    /\ LET w == pinned_drop(Begin, pin.v)
       IN  pin' = [w EXCEPT !.v = [w.v EXCEPT !.live = FALSE], !.op = "drop",
                            !.changed = FALSE,
                            !.pc = IF Panicked(w) THEN "panicked" ELSE "dropped"]
    /\ PinOthersUnchanged

PinNext ==
    \/ PinSetPinnable \/ PinReserveAndPin \/ PinPush \/ PinTruncate \/ PinResize
    \/ PinAppend \/ PinAppendPinned \/ PinClone \/ PinDropClone \/ PinDrop

SpecPinned == PinInit /\ [][PinNext]_vars

(***************************************************************************)
(* perf/src/packet.rs: to_packets_chunked, to_packets and Packets::reset   *)
(* (SpecPackets).  A batch (Packets) is the sequence of the packets of its *)
(* PinnedVec; an item to serialize is a small number, which bincode writes *)
(* as one byte, or Oversized, which does not fit a packet.                 *)
(***************************************************************************)
MaxXs == 3          \* items handed to to_packets_chunked
MaxChunks == 3      \* chunk size handed to to_packets_chunked
NUM_PACKETS == 8192

Oversized == 0
Items == {Oversized, 1, 2}

\* Packet::default(): no data, meta.size = 0.
DefaultPacket == [data |-> <<>>, size |-> 0]

\* Packet::populate_packet(o, None, item), lines 89-91: the item is
\* serialized into the packet's data and meta.size is the number of bytes
\* written; an item that does not fit gives Err.
populate_packet(o, item) ==
    IF item = Oversized
    THEN [ok |-> FALSE, packet |-> o]
    ELSE [ok |-> TRUE, packet |-> [data |-> <<item>>, size |-> 1]]

\* A chunk of the right length, taken from the start of xs every time.
next_chunk_from_start(xs, at, chunks) ==
    SubSeq(xs, 1, IF at + chunks <= Len(xs) THEN chunks ELSE Len(xs) - at)

\* xs.chunks(chunks), line 87: the chunk that starts after `at` items, the
\* last one being what is left.
next_chunk(xs, at, chunks) ==
    SubSeq(xs, at + 1, IF at + chunks <= Len(xs) THEN at + chunks ELSE Len(xs))

\* Packets::default() and p.packets.resize(x.len(), Packet::default()),
\* lines 88-89.
new_batch(len) == vec_resize(<<>>, len, DefaultPacket)

\* Reset for Packets, lines 32-35.
packets_reset(packets) == vec_resize(packets, 0, DefaultPacket)

PkOthersUnchanged == UNCHANGED <<sel, sf, tw, pv, dl, pin, ps, mainVars>>

PkCall(fn, xs, chunks) ==
    [pc |-> IF fn = "to_packets" THEN "to_packets" ELSE "to_packets_chunked",
     fn |-> fn, xs |-> xs, chunks |-> chunks, at |-> 0,
     out |-> <<>>, reset |-> 0, p |-> <<>>]

\* The calls: to_packets_chunked with up to MaxXs items and a chunk size up
\* to MaxChunks, to_packets with few items, NUM_PACKETS items and
\* NUM_PACKETS + 1 items (test_to_packets).
PkInit ==
    /\ \/ \E n \in 0..MaxXs, chunks \in 0..MaxChunks :
            \E xs \in [1..n -> Items] :
                pk = PkCall("to_packets_chunked", xs, chunks)
       \/ \E n \in 0..MaxXs : \E xs \in [1..n -> Items] :
            pk = PkCall("to_packets", xs, 0)
       \/ \E n \in {NUM_PACKETS - 1, NUM_PACKETS, NUM_PACKETS + 1},
             item \in Items \ {Oversized} :
            pk = PkCall("to_packets", [i \in 1..n |-> item], 0)
    /\ sel = SelIdle /\ sf = SfIdle /\ tw = TwIdle /\ pv = PvIdle
    /\ dl = DlIdle /\ pin = PinIdle /\ ps = PsIdle
    /\ MainIdle

\* to_packets, lines 98-100.
PkToPackets ==
    /\ pk.pc = "to_packets"
    /\ pk' = [pk EXCEPT !.pc = "to_packets_chunked", !.chunks = NUM_PACKETS]
    /\ PkOthersUnchanged

\* to_packets_chunked, lines 85-87: slice::chunks panics on a chunk size of
\* zero.
PkToPacketsChunked ==
    /\ pk.pc = "to_packets_chunked"
    /\ pk' = [pk EXCEPT !.pc = IF pk.chunks = 0 THEN "panicked" ELSE "loop"]
    /\ PkOthersUnchanged

\* One round of the loop, lines 87-94; expect("serialize request") panics.
PkChunk ==
    /\ pk.pc = "loop"
    /\ pk.at < Len(pk.xs)
    /\ LET x == next_chunk(pk.xs, pk.at, pk.chunks)
           p == new_batch(Len(x))
           populated == [j \in 1..Len(x) |-> populate_packet(p[j], x[j])]
       IN  IF \E j \in 1..Len(x) : ~populated[j].ok
           THEN pk' = [pk EXCEPT !.pc = "panicked"]
           ELSE pk' = [pk EXCEPT
                          !.out = Append(@, [j \in 1..Len(x) |->
                                                populated[j].packet]),
                          !.at = @ + Len(x)]
    /\ PkOthersUnchanged

\* Line 95: the loop is over, out is returned.
PkReturn ==
    /\ pk.pc = "loop"
    /\ pk.at >= Len(pk.xs)
    /\ pk' = [pk EXCEPT !.pc = "done"]
    /\ PkOthersUnchanged

\* Packets::reset on one of the batches returned.
PkReset ==
    /\ pk.pc = "done"
    /\ \E b \in 1..Len(pk.out) :
          pk' = [pk EXCEPT !.reset = b, !.p = packets_reset(pk.out[b])]
    /\ PkOthersUnchanged

PkNext ==
    \/ PkToPackets
    \/ PkToPacketsChunked
    \/ PkChunk
    \/ PkReturn
    \/ PkReset

SpecPackets == PkInit /\ [][PkNext]_vars

(***************************************************************************)
(* sdk/src/pubkey.rs: impl FromStr for Pubkey (SpecPubkey).  A string is   *)
(* the sequence of its characters' codes (a code above 127 stands for a    *)
(* non-ASCII character); bs58 is modelled by the byte-wise algorithm of    *)
(* the crate, the encoder and the decoder each on its own.                 *)
(***************************************************************************)
MaxStrLen == 2      \* length of the short strings parsed
MaxEdits == 2       \* edits of a string between parses
PubkeySize == 32

\* The Bitcoin alphabet of bs58: "123456789ABC..Zabc..z" without 0, O, I, l.
ALPHABET ==
    <<49, 50, 51, 52, 53, 54, 55, 56, 57, 65, 66, 67,
      68, 69, 70, 71, 72, 74, 75, 76, 77, 78, 80, 81,
      82, 83, 84, 85, 86, 87, 88, 89, 90, 97, 98, 99,
      100, 101, 102, 103, 104, 105, 106, 107, 109, 110, 111, 112,
      113, 114, 115, 116, 117, 118, 119, 120, 121, 122>>

\* Characters of the short strings: '1', '2', 'z', '0', 'I' and a
\* non-ASCII one.
ShortChars == {49, 50, 122, 48, 73, 233}

Reverse(seq) == [i \in 1..Len(seq) |-> seq[Len(seq) + 1 - i]]

\* Leading elements of seq equal to e.
LeadingCount(seq, e) ==
    IF \A i \in 1..Len(seq) : seq[i] = e
    THEN Len(seq)
    ELSE (CHOOSE i \in 1..Len(seq) :
              seq[i] # e /\ \A j \in 1..(i - 1) : seq[j] = e) - 1

\* `while carry > 0`: what is left of a carry, least significant digit
\* first.
RECURSIVE carry_digits(_, _)
carry_digits(carry, base) ==
    IF carry > 0
    THEN <<carry % base>> \o carry_digits(carry \div base, base)
    ELSE <<>>

\* The inner loop of bs58 over digits lo..hi (least significant first):
\* every digit becomes (digit * mul + carry) % base and hands on the
\* quotient.  The range is halved rather than walked and the halves are
\* bound as values, which keeps the evaluation shallow.
RECURSIVE carry_range(_, _, _, _, _, _)
carry_range(digits, lo, hi, carry, mul, base) ==
    IF lo = hi
    THEN [digits |-> <<(carry + digits[lo] * mul) % base>>,
          carry |-> (carry + digits[lo] * mul) \div base]
    ELSE CHOOSE r \in UNION {
             {[digits |-> low.digits \o high.digits, carry |-> high.carry] :
                 high \in {carry_range(digits, (lo + hi) \div 2 + 1, hi,
                                       low.carry, mul, base)}} :
                 low \in {carry_range(digits, lo, (lo + hi) \div 2,
                                      carry, mul, base)}} : TRUE

\* One round of the outer loop of bs58: the inner loop over the digits
\* there are, then the digits of the carry.
carry_through(digits, carry, mul, base) ==
    IF digits = <<>>
    THEN carry_digits(carry, base)
    ELSE LET r == carry_range(digits, 1, Len(digits), carry, mul, base)
         IN  r.digits \o carry_digits(r.carry, base)

\* The value of a character in the alphabet, 255 for a character outside it.
bs58_value(c) ==
    IF \E i \in 1..Len(ALPHABET) : ALPHABET[i] = c
    THEN (CHOOSE i \in 1..Len(ALPHABET) : ALPHABET[i] = c) - 1
    ELSE 255

\* The rounds of the decoder for characters lo..hi of s, from the bytes
\* `out` (least significant first).
RECURSIVE bs58_decode_range(_, _, _, _)
bs58_decode_range(s, lo, hi, out) ==
    IF lo > hi
    THEN out
    ELSE IF lo = hi
         THEN carry_through(out, bs58_value(s[lo]), 58, 256)
         ELSE CHOOSE r \in
                  {bs58_decode_range(s, (lo + hi) \div 2 + 1, hi, low) :
                      low \in {bs58_decode_range(s, lo, (lo + hi) \div 2,
                                                 out)}} : TRUE

\* bs58::decode(s).into_vec(), line 31: the number the string writes in base
\* 58, big-endian, behind one zero byte for every leading '1'; an error for
\* a character that is not ASCII or not in the alphabet.
bs58_decode(s) ==
    IF \E i \in 1..Len(s) : s[i] > 127 \/ bs58_value(s[i]) = 255
    THEN [ok |-> FALSE, bytes |-> <<>>]
    ELSE [ok |-> TRUE,
          bytes |-> Reverse(bs58_decode_range(s, 1, Len(s), <<>>)
                            \o Fill(LeadingCount(s, ALPHABET[1]), 0))]

\* The rounds of the encoder for bytes lo..hi, from the base-58 digits
\* `digits` (least significant first).
RECURSIVE bs58_encode_range(_, _, _, _)
bs58_encode_range(bytes, lo, hi, digits) ==
    IF lo > hi
    THEN digits
    ELSE IF lo = hi
         THEN carry_through(digits, bytes[lo], 256, 58)
         ELSE CHOOSE r \in
                  {bs58_encode_range(bytes, (lo + hi) \div 2 + 1, hi, low) :
                      low \in {bs58_encode_range(bytes, lo, (lo + hi) \div 2,
                                                 digits)}} : TRUE

\* bs58::encode(bytes).into_string(), line 152 of the test.
bs58_encode(bytes) ==
    LET digits == Reverse(bs58_encode_range(bytes, 1, Len(bytes), <<>>)
                          \o Fill(LeadingCount(bytes, 0), 0))
    IN  [i \in 1..Len(digits) |-> ALPHABET[digits[i] + 1]]

\* from_str with the decoder's error reported as WrongSize.
from_str_invalid_as_wrong_size(s) ==
    LET pubkey_vec == bs58_decode(s)
    IN  IF pubkey_vec.ok /\ Len(pubkey_vec.bytes) = PubkeySize
        THEN [kind |-> "Ok", bytes |-> pubkey_vec.bytes]
        ELSE [kind |-> "WrongSize", bytes |-> <<>>]

\* Pubkey::from_str, lines 30-39.
from_str(s) ==
    LET pubkey_vec == bs58_decode(s)
    IN  IF ~pubkey_vec.ok
        THEN [kind |-> "Invalid", bytes |-> <<>>]
        ELSE IF Len(pubkey_vec.bytes) # PubkeySize
             THEN [kind |-> "WrongSize", bytes |-> <<>>]
             ELSE [kind |-> "Ok", bytes |-> pubkey_vec.bytes]

\* Byte strings whose encodings are parsed: keys (all zero, all 255, a ramp,
\* two leading zeros) and strings one byte shorter and longer than a key.
ByteStrings ==
    {[i \in 1..PubkeySize |-> 0],
     [i \in 1..PubkeySize |-> 255],
     [i \in 1..PubkeySize |-> i],
     [i \in 1..PubkeySize |-> IF i <= 2 THEN 0 ELSE (7 * i) % 256],
     [i \in 1..PubkeySize - 1 |-> 3 * i],
     [i \in 1..PubkeySize + 1 |-> 255 - i]}

PsOthersUnchanged == UNCHANGED <<sel, sf, tw, pv, dl, pin, pk, mainVars>>

\* The string handed to parse: the encoding of a byte string (pubkey_fromstr,
\* lines 151-152) or a short string of any characters.
PsInit ==
    /\ \/ \E bytes \in ByteStrings :
            ps = [PsIdle EXCEPT !.pc = "str", !.s = bs58_encode(bytes),
                                !.key = bytes]
       \/ \E n \in 0..MaxStrLen : \E s \in [1..n -> ShortChars] :
            ps = [PsIdle EXCEPT !.pc = "str", !.s = s]
    /\ sel = SelIdle /\ sf = SfIdle /\ tw = TwIdle /\ pv = PvIdle
    /\ dl = DlIdle /\ pin = PinIdle /\ pk = PkIdle
    /\ MainIdle

PsEdited(s) ==
    [ps EXCEPT !.pc = "str", !.s = s, !.edits = @ + 1, !.res = NoParse]

\* pubkey_base58_str.push_str(&bs58::encode(pubkey.0).into_string()),
\* line 156.
PsPushStr ==
    /\ ps.pc # "idle" /\ ps.edits < MaxEdits
    /\ ps.key # <<>>
    /\ ps' = PsEdited(ps.s \o bs58_encode(ps.key))
    /\ PsOthersUnchanged

\* pubkey_base58_str.truncate(pubkey_base58_str.len() / 2), lines 162, 165.
PsTruncate ==
    /\ ps.pc # "idle" /\ ps.edits < MaxEdits
    /\ ps.s # <<>>
    /\ ps' = PsEdited(SubSeq(ps.s, 1, Len(ps.s) \div 2))
    /\ PsOthersUnchanged

\* pubkey_base58_str.replace_range(..1, "I"), line 175.
PsReplaceRange ==
    /\ ps.pc # "idle" /\ ps.edits < MaxEdits
    /\ ps.s # <<>>
    /\ ps' = PsEdited(<<73>> \o Tail(ps.s))
    /\ PsOthersUnchanged

\* pubkey_base58_str.parse::<Pubkey>().
PsParse ==
    /\ ps.pc = "str"
    /\ ps' = [ps EXCEPT !.pc = "parsed", !.res = from_str(ps.s)]
    /\ PsOthersUnchanged

PsNext ==
    \/ PsPushStr
    \/ PsTruncate
    \/ PsReplaceRange
    \/ PsParse

SpecPubkey == PsInit /\ [][PsNext]_vars

(***************************************************************************)
(* The control-loop thread: Archiver::setup, then Archiver::run.  RPC      *)
(* peers and RPC responses are drawn afresh at every call; close() and     *)
(* the window service run beside the thread.  A local that is dead (the    *)
(* peer index, the poller's return value once used) is not kept.           *)
(***************************************************************************)
Init ==
    /\ pc = "get_segment_config"
    /\ meta = MetaDefault
    /\ loc = LocDefault
    /\ storage_keypair \in ArchiverKeys
    /\ exit = FALSE
    /\ enc_file = NoFile
    /\ full = {}
    /\ proofs = <<>>
    /\ iter = 0
    /\ brk = "none"
    /\ RespIdle
    /\ sel = SelIdle /\ sf = SfIdle /\ tw = TwIdle /\ pv = PvIdle /\ dl = DlIdle
    /\ PerfIdle

\* setup, lines 454-456: get_segment_config answered by an RPC peer.
SetupGetSegmentConfigOk ==
    /\ pc = "get_segment_config"
    /\ \E node_index \in PeerIndexes, sps \in SpsValues :
          loc' = [loc EXCEPT !.slots_per_segment = sps,
                             !.caller = "setup",
                             !.previous_blockhash = 0]
    /\ pc' = "poll_rpc"
    /\ UNCHANGED <<meta, storage_keypair, exit, enc_file, full, proofs, iter, brk>>
    /\ UNCHANGED <<pureVars, slot_chan, respVars>>

\* get_segment_config, lines 738-763, fails: the peer snapshot is empty
\* (762) or the RPC fails (751-754); setup, lines 457-462, sets the flag and
\* returns the error.
SetupGetSegmentConfigErr ==
    /\ pc = "get_segment_config"
    /\ \E e \in {"No RPC peers...", "rpc error"} :
          loc' = [loc EXCEPT !.config_err = e]
    /\ exit' = TRUE
    /\ pc' = "setup_failed"
    /\ UNCHANGED <<meta, storage_keypair, enc_file, full, proofs, iter, brk>>
    /\ UNCHANGED <<pureVars, slot_chan, respVars>>

\* The segment width the poller was called with.
PollSps == IF loc.caller = "run" THEN meta.slots_per_segment ELSE loc.slots_per_segment

\* An empty peer snapshot treated as get_segment_config treats it: an error.
PollNoPeersIsError ==
    /\ pc = "poll_rpc"
    /\ loc' = [loc EXCEPT !.rpc_peers = "empty", !.poll_err = "No RPC peers"]
    /\ pc' = "poll_ret_err"
    /\ UNCHANGED <<meta, storage_keypair, exit, enc_file, full, proofs, iter, brk>>
    /\ UNCHANGED <<pureVars, slot_chan, respVars>>

\* poll_for_blockhash_and_slot, lines 795-800: the peer snapshot is empty,
\* the branch with the RPC is skipped.
PollNoPeers ==
    /\ pc = "poll_rpc"
    /\ loc' = [loc EXCEPT !.rpc_peers = "empty"]
    /\ pc' = "poll_check_exit"
    /\ UNCHANGED <<meta, storage_keypair, exit, enc_file, full, proofs, iter, brk>>
    /\ UNCHANGED <<pureVars, slot_chan, respVars>>

\* lines 805-826: the RPC fails, or its response does not parse.
PollRpcErr ==
    /\ pc = "poll_rpc"
    /\ \E msg \in {"rpc error", "parse error"} :
          loc' = [loc EXCEPT !.poll_err = msg]
    /\ pc' = "poll_ret_err"
    /\ UNCHANGED <<meta, storage_keypair, exit, enc_file, full, proofs, iter, brk>>
    /\ UNCHANGED <<pureVars, slot_chan, respVars>>

\* lines 801-832: a peer answers (turn_blockhash, turn_slot).  The cluster
\* goes through MaxTurns storage turns, that of setup among them: once the prove
\* loop has seen them all, the blockhash of the answers stays what it is.
PollResponse ==
    /\ pc = "poll_rpc"
    /\ \E node_index \in PeerIndexes, bh \in Blockhashes, ts \in TurnSlots :
          /\ (loc.caller = "run" /\ iter >= MaxTurns) => bh = loc.previous_blockhash
          /\ loc' = [loc EXCEPT !.turn_blockhash = bh, !.turn_slot = ts]
          /\ pc' = IF poll_accepts(bh, ts, PollSps, loc.previous_blockhash)
                   THEN "poll_ret_ok"
                   ELSE "poll_check_exit"
    /\ UNCHANGED <<meta, storage_keypair, exit, enc_file, full, proofs, iter, brk>>
    /\ UNCHANGED <<pureVars, slot_chan, respVars>>

\* lines 834-839: the exit flag is read and never slept on.
PollCheckExitIgnored ==
    /\ pc = "poll_check_exit"
    /\ loc' = [loc EXCEPT !.turn_blockhash = 0, !.turn_slot = 0,
                          !.rpc_peers = "unread"]
    /\ pc' = "poll_sleep"
    /\ UNCHANGED <<meta, storage_keypair, exit, enc_file, full, proofs, iter, brk>>
    /\ UNCHANGED <<pureVars, slot_chan, respVars>>

\* lines 834-839: the exit flag is read; the response of this round, if any,
\* has gone out of scope.
PollCheckExit ==
    /\ pc = "poll_check_exit"
    /\ loc' = [loc EXCEPT !.turn_blockhash = 0, !.turn_slot = 0,
                          !.rpc_peers = "unread",
                          !.poll_err = IF exit THEN "exit signalled" ELSE @]
    /\ pc' = IF exit THEN "poll_ret_err" ELSE "poll_sleep"
    /\ UNCHANGED <<meta, storage_keypair, exit, enc_file, full, proofs, iter, brk>>
    /\ UNCHANGED <<pureVars, slot_chan, respVars>>

\* line 840: sleep, then the next round.
PollSleep ==
    /\ pc = "poll_sleep"
    /\ pc' = "poll_rpc"
    /\ UNCHANGED <<meta, loc, storage_keypair, exit, enc_file, full, proofs, iter, brk>>
    /\ UNCHANGED <<pureVars, slot_chan, respVars>>

\* poll_for_segment, lines 774-782, and setup, line 470.
SetupPollForSegmentOk ==
    /\ pc = "poll_ret_ok" /\ loc.caller = "setup"
    /\ IF segment_ready(loc.turn_slot, loc.slots_per_segment)
       THEN /\ loc' = [loc EXCEPT !.segment_blockhash = loc.turn_blockhash,
                                  !.segment_slot = loc.turn_slot,
                                  !.turn_blockhash = 0,
                                  !.turn_slot = 0]
            /\ pc' = "select"
       ELSE /\ loc' = loc
            /\ pc' = "poll_rpc"
    /\ UNCHANGED <<meta, storage_keypair, exit, enc_file, full, proofs, iter, brk>>
    /\ UNCHANGED <<pureVars, slot_chan, respVars>>

\* setup, lines 471-475.
SetupPollForSegmentErr ==
    /\ pc = "poll_ret_err" /\ loc.caller = "setup"
    /\ exit' = TRUE
    /\ pc' = "setup_failed"
    /\ loc' = [loc EXCEPT !.poll_err = "none"]
    /\ UNCHANGED <<meta, storage_keypair, enc_file, full, proofs, iter, brk>>
    /\ UNCHANGED <<pureVars, slot_chan, respVars>>

\* The slot_receiver is owned by poll_for_slot and dropped when it returns.
slot_receiver_alive == proc.pc = "poll_for_slot"

\* setup, lines 477-510: sign, select the slot, send it to the processor,
\* fill meta, start the window service on the repair range.  The send fails
\* when the receiver is gone, and setup returns the error.
SetupSelect ==
    /\ pc = "select"
    /\ IF setup_select_panics(loc, storage_keypair)
       THEN /\ pc' = "panicked"
            /\ loc' = [loc EXCEPT !.panic = "unwrap"]
            /\ UNCHANGED <<meta, slot_chan>>
       ELSE IF ~slot_receiver_alive
       THEN /\ pc' = "setup_failed"
            /\ loc' = [loc EXCEPT !.segment_slot = 0]
            /\ UNCHANGED <<meta, slot_chan>>
       ELSE /\ meta' = setup_select(meta, loc, storage_keypair)
            /\ slot_chan' = Append(slot_chan, meta'.slot)
            /\ loc' = [loc EXCEPT !.segment_slot = 0,
                                  !.current_slot = meta'.slot]
            /\ pc' = "wait_for_segment_download"
    /\ UNCHANGED <<storage_keypair, exit, enc_file, full, proofs, iter, brk>>
    /\ UNCHANGED <<pureVars, respVars>>

RepairRange == meta.slot..(meta.slot + meta.slots_per_segment - 1)

\* The window service stores the last missing shred of a slot of the range.
WindowInsert ==
    /\ pc = "wait_for_segment_download"
    /\ ~exit
    /\ \E s \in RepairRange \ full : full' = full \cup {s}
    /\ UNCHANGED <<pc, meta, loc, storage_keypair, exit, enc_file, proofs, iter, brk>>
    /\ UNCHANGED <<pureVars, slot_chan, respVars>>

\* The first slot from `from` on that is not full, at most `end`.
RECURSIVE FirstNotFull(_, _, _)
FirstNotFull(from, end, fullSlots) ==
    IF from >= end \/ from \notin fullSlots
    THEN from
    ELSE FirstNotFull(from + 1, end, fullSlots)

\* wait_for_segment_download that leaves the gossip record alone when it
\* was the exit flag that ended the wait.
WaitForSegmentDownloadKeepsTvuOnExit ==
    /\ pc = "wait_for_segment_download"
    /\ LET end == meta.slot + meta.slots_per_segment
           current_slot == FirstNotFull(loc.current_slot, end, full)
       IN  IF current_slot >= end \/ exit
           THEN /\ loc' = [loc EXCEPT !.current_slot = 0,
                                      !.tvu_removed = ~exit]
                /\ pc' = "encrypt_ledger"
           ELSE /\ loc' = [loc EXCEPT !.current_slot = current_slot]
                /\ pc' = pc
    /\ UNCHANGED <<meta, storage_keypair, exit, enc_file, full, proofs, iter, brk>>
    /\ UNCHANGED <<pureVars, slot_chan, respVars>>

\* wait_for_segment_download, lines 535-559: one round of the outer loop; the
\* contact info is rewritten when the loop is left.
WaitForSegmentDownload ==
    /\ pc = "wait_for_segment_download"
    /\ LET end == meta.slot + meta.slots_per_segment
           current_slot == FirstNotFull(loc.current_slot, end, full)
       IN  IF current_slot >= end \/ exit
           THEN /\ loc' = [loc EXCEPT !.current_slot = 0,
                                      !.tvu_removed = TRUE]
                /\ pc' = "encrypt_ledger"
           ELSE /\ loc' = [loc EXCEPT !.current_slot = current_slot]
                /\ pc' = pc
    /\ UNCHANGED <<meta, storage_keypair, exit, enc_file, full, proofs, iter, brk>>
    /\ UNCHANGED <<pureVars, slot_chan, respVars>>

\* The bytes of the shreds of the range: none when no slot of it is stored.
PayloadLens ==
    IF RepairRange \cap full = {}
    THEN {0}
    ELSE {(nb * CHACHA_BLOCK_SIZE) - (nb % 2) : nb \in 1..MaxBlocks}

\* run, line 354: encrypt_ledger; an I/O error ends in expect()'s panic.
RunEncryptLedger ==
    /\ pc = "encrypt_ledger"
    /\ \E io_ok \in BOOLEAN, payload_len \in PayloadLens :
          IF io_ok
          THEN LET file == CipherText(payload_len, meta.slot, meta.signature)
               IN  /\ enc_file' = file
                   /\ meta' = encrypt_ledger(meta, file.len)
                   /\ pc' = "loop_top"
                   /\ loc' = loc
          ELSE /\ pc' = "panicked"
               /\ loc' = [loc EXCEPT !.panic = "expect"]
               /\ UNCHANGED <<enc_file, meta>>
    /\ UNCHANGED <<storage_keypair, exit, full, proofs, iter, brk>>
    /\ UNCHANGED <<pureVars, slot_chan, respVars>>

\* A loop that does not read the flag at its top.
RunLoopTopNoExitCheck ==
    /\ pc = "loop_top"
    /\ brk' = brk
    /\ pc' = "create_sampling_offsets"
    /\ iter' = iter + 1
    /\ UNCHANGED <<meta, loc, storage_keypair, exit, enc_file, full, proofs>>
    /\ UNCHANGED <<pureVars, slot_chan, respVars>>

\* run, lines 357-360.
RunLoopTop ==
    /\ pc = "loop_top"
    /\ IF exit
       THEN /\ brk' = "exit_seen"
            /\ pc' = "run_exit"
            /\ iter' = iter
       ELSE /\ brk' = brk
            /\ pc' = "create_sampling_offsets"
            /\ iter' = iter + 1
    /\ UNCHANGED <<meta, loc, storage_keypair, exit, enc_file, full, proofs>>
    /\ UNCHANGED <<pureVars, slot_chan, respVars>>

\* run, line 363; gen_range panics on an empty range.
RunCreateSamplingOffsets ==
    /\ pc = "create_sampling_offsets"
    /\ IF meta.num_chacha_blocks = 0
       THEN /\ pc' = "panicked"
            /\ loc' = [loc EXCEPT !.panic = "gen_range"]
            /\ meta' = [meta EXCEPT !.sampling_offsets = <<>>]
       ELSE /\ pc' = "sample"
            /\ loc' = loc
            /\ meta' = create_sampling_offsets(meta)
    /\ UNCHANGED <<storage_keypair, exit, enc_file, full, proofs, iter, brk>>
    /\ UNCHANGED <<pureVars, slot_chan, respVars>>

\* run, lines 365-367: the sample hash is computed.
RunSampleOk ==
    /\ pc = "sample"
    /\ LET res == sample_file(enc_file, meta.sampling_offsets)
       IN  /\ res.kind = "ok"
           /\ meta' = [meta EXCEPT !.sha_state = res.hash]
    /\ pc' = "submit"
    /\ UNCHANGED <<loc, storage_keypair, exit, enc_file, full, proofs, iter, brk>>
    /\ UNCHANGED <<pureVars, slot_chan, respVars>>

\* The sample hash fails and the loop goes on with its next iteration.
RunSampleErrContinue ==
    /\ pc = "sample"
    /\ sample_file(enc_file, meta.sampling_offsets).kind # "ok"
    /\ pc' = "loop_top"
    /\ UNCHANGED <<meta, loc, storage_keypair, exit, enc_file, full, proofs, iter, brk>>
    /\ UNCHANGED <<pureVars, slot_chan, respVars>>

\* run, lines 368-371: the sample hash fails, break.
RunSampleErr ==
    /\ pc = "sample"
    /\ LET res == sample_file(enc_file, meta.sampling_offsets)
       IN  /\ res.kind # "ok"
           /\ pc' = IF res.kind = "panic" THEN "panicked" ELSE "run_exit"
           /\ brk' = IF res.kind = "panic" THEN brk ELSE "sample_err"
           /\ loc' = IF res.kind = "panic" THEN [loc EXCEPT !.panic = "assert_eq"]
                     ELSE loc
    /\ UNCHANGED <<meta, storage_keypair, exit, enc_file, full, proofs, iter>>
    /\ UNCHANGED <<pureVars, slot_chan, respVars>>

SubmitOutcomes ==
    {"no_storage_account", "no_balance", "no_blockhash", "confirmed", "unconfirmed"}

\* The transaction was built and handed to send_and_confirm_transaction.
submit_sends(outcome) == outcome \in {"confirmed", "unconfirmed"}

\* run, line 374: submit_mining_proof, lines 665-721, up to its return.
\* late_proofs counts the calls made while the exit flag was set.
RunSubmitMiningProof ==
    /\ pc = "submit"
    /\ \E outcome \in SubmitOutcomes :
          /\ proofs' = IF submit_sends(outcome)
                       THEN Append(proofs, [iter |-> iter] @@ mining_proof(meta))
                       ELSE proofs
          /\ loc' = [loc EXCEPT !.submit = outcome,
                                !.late_proofs = IF exit THEN @ + 1 ELSE @]
    /\ pc' = "submit_returned"
    /\ UNCHANGED <<meta, storage_keypair, exit, enc_file, full, iter, brk>>
    /\ UNCHANGED <<pureVars, slot_chan, respVars>>

\* A run that breaks out of the loop when the proof was not confirmed.
RunAfterSubmitBreak ==
    /\ pc = "submit_returned"
    /\ loc' = [loc EXCEPT !.caller = "run",
                          !.previous_blockhash = meta.blockhash,
                          !.submit = "none"]
    /\ pc' = IF loc.submit = "confirmed" THEN "poll_rpc" ELSE "run_exit"
    /\ UNCHANGED <<meta, storage_keypair, exit, enc_file, full, proofs, iter, brk>>
    /\ UNCHANGED <<pureVars, slot_chan, respVars>>

\* run, lines 374-383: submit_mining_proof returns nothing, and run calls
\* the poller with meta.blockhash whatever the submission came to.
RunAfterSubmit ==
    /\ pc = "submit_returned"
    /\ loc' = [loc EXCEPT !.caller = "run",
                          !.previous_blockhash = meta.blockhash,
                          !.submit = "none"]
    /\ pc' = "poll_rpc"
    /\ UNCHANGED <<meta, storage_keypair, exit, enc_file, full, proofs, iter, brk>>
    /\ UNCHANGED <<pureVars, slot_chan, respVars>>

\* run, lines 378-393: the poller returns a turn.
RunPollOk ==
    /\ pc = "poll_ret_ok" /\ loc.caller = "run"
    /\ meta' = run_new_turn(meta, storage_keypair, loc.turn_blockhash, loc.turn_slot)
    /\ loc' = [loc EXCEPT !.turn_blockhash = 0, !.turn_slot = 0]
    /\ pc' = "redeem"
    /\ UNCHANGED <<storage_keypair, exit, enc_file, full, proofs, iter, brk>>
    /\ UNCHANGED <<pureVars, slot_chan, respVars>>

\* run, lines 385-391: the poller fails, break.
RunPollErr ==
    /\ pc = "poll_ret_err" /\ loc.caller = "run"
    /\ brk' = "poll_err"
    /\ pc' = "run_exit"
    /\ loc' = [loc EXCEPT !.poll_err = "none"]
    /\ UNCHANGED <<meta, storage_keypair, exit, enc_file, full, proofs, iter>>
    /\ UNCHANGED <<pureVars, slot_chan, respVars>>

\* What redeem_rewards can meet: get_account_with_commitment fails, finds no
\* account, or finds one; account.state() fails, or decodes to another
\* variant of StorageContract, or to ArchiverStorage with its validations
\* (none, or one).
RedeemAccounts ==
    {[account |-> "rpc error", state |-> "none", validations |-> 0],
     [account |-> "no account", state |-> "none", validations |-> 0],
     [account |-> "account", state |-> "undecodable", validations |-> 0],
     [account |-> "account", state |-> "ValidatorStorage", validations |-> 0],
     [account |-> "account", state |-> "ArchiverStorage", validations |-> 0],
     [account |-> "account", state |-> "ArchiverStorage", validations |-> 1]}

\* redeem_rewards that claims whatever the validations list holds.
redeem_sends_claim_unvalidated(a) ==
    /\ a.account = "account"
    /\ a.state = "ArchiverStorage"

\* redeem_rewards, lines 413-417: the three nested conditions.
redeem_sends_claim(a) ==
    /\ a.account = "account"
    /\ a.state = "ArchiverStorage"
    /\ a.validations # 0

\* run, lines 394-399: redeem_rewards, lines 404-440, up to its return; the
\* claim_reward transaction, when sent, succeeds or fails.
RunRedeemRewards ==
    /\ pc = "redeem"
    /\ \E a \in RedeemAccounts :
          IF redeem_sends_claim(a)
          THEN \E sent \in {"claimed", "tx failed"} :
                  loc' = [loc EXCEPT !.redeem =
                             [account |-> a.account, state |-> a.state,
                              validations |-> a.validations, claim |-> sent]]
          ELSE loc' = [loc EXCEPT !.redeem =
                          [account |-> a.account, state |-> a.state,
                           validations |-> a.validations, claim |-> "none"]]
    /\ pc' = "redeem_returned"
    /\ UNCHANGED <<meta, storage_keypair, exit, enc_file, full, proofs, iter, brk>>
    /\ UNCHANGED <<pureVars, slot_chan, respVars>>

\* run, line 400: redeem_rewards returns nothing; the loop starts over.
RunAfterRedeem ==
    /\ pc = "redeem_returned"
    /\ loc' = [loc EXCEPT !.redeem = RedeemNotCalled]
    /\ pc' = "loop_top"
    /\ UNCHANGED <<meta, storage_keypair, exit, enc_file, full, proofs, iter, brk>>
    /\ UNCHANGED <<pureVars, slot_chan, respVars>>

\* run that returns without storing the flag.
RunReturnsWithoutStore ==
    /\ pc = "run_exit"
    /\ exit' = exit
    /\ pc' = "run_returned"
    /\ UNCHANGED <<meta, loc, storage_keypair, enc_file, full, proofs, iter, brk>>
    /\ UNCHANGED <<pureVars, slot_chan, respVars>>

\* run, line 401, and the return.
RunExitStore ==
    /\ pc = "run_exit"
    /\ exit' = TRUE
    /\ pc' = "run_returned"
    /\ UNCHANGED <<meta, loc, storage_keypair, enc_file, full, proofs, iter, brk>>
    /\ UNCHANGED <<pureVars, slot_chan, respVars>>

\* The thread closure, lines 306-309: setup failed, the flag is stored.
ThreadSetupFailed ==
    /\ pc = "setup_failed"
    /\ exit' = TRUE
    /\ pc' = "join_workers"
    /\ UNCHANGED <<meta, loc, storage_keypair, enc_file, full, proofs, iter, brk>>
    /\ UNCHANGED <<pureVars, slot_chan, respVars>>

\* The thread closure, lines 310-315 and 330-335: the joins return once the
\* workers have ended: t_processor, and the services (receiver, responder,
\* fetch stage, gossip, window) that stop when they see the flag.
ThreadJoin ==
    /\ pc \in {"join_workers", "run_returned"}
    /\ proc.pc = "done" /\ exit
    /\ pc' = "thread_done"
    /\ UNCHANGED <<meta, loc, storage_keypair, exit, enc_file, full, proofs, iter, brk>>
    /\ UNCHANGED <<pureVars, slot_chan, respVars>>

ThreadEnded == pc \in {"thread_done", "panicked"}

\* close(), line 724, called by the owner of the Archiver.
Close ==
    /\ ~exit
    /\ exit' = TRUE
    /\ UNCHANGED <<pc, meta, loc, storage_keypair, enc_file, full, proofs, iter, brk>>
    /\ UNCHANGED <<pureVars, slot_chan, respVars>>

\* One round of poll_for_slot, lines 185-193: recv_timeout on the slot channel
\* returns the slot, or it times out and the flag is read.  A slot sent
\* between the time-out and the read of the flag stays in the channel.
ProcPollForSlot ==
    /\ proc.pc = "poll_for_slot"
    /\ \/ /\ slot_chan # <<>>
          /\ proc' = [proc EXCEPT !.pc = "loop", !.slot = Head(slot_chan),
                                  !.got = TRUE]
          /\ slot_chan' = Tail(slot_chan)
       \/ /\ exit
          /\ proc' = [proc EXCEPT !.pc = "loop", !.slot = 0]
          /\ slot_chan' = slot_chan
    /\ UNCHANGED <<reqs, replies>>
    /\ UNCHANGED <<pureVars, threadVars>>

\* One round of the processor loop, lines 156-177: the flag is read, then
\* recv_timeout on r_reader returns a batch, which is answered, or times out.
ProcLoopBody(sees_exit) ==
    /\ proc.pc = "loop"
    /\ IF sees_exit
       THEN /\ proc' = [proc EXCEPT !.pc = "done"]
            /\ UNCHANGED <<reqs, replies>>
       ELSE /\ reqs # <<>>
            /\ replies' = replies \o process_packets(Head(reqs), proc.slot)
            /\ reqs' = Tail(reqs)
            /\ proc' = [proc EXCEPT !.handled = @ \o Head(reqs)]
    /\ UNCHANGED slot_chan
    /\ UNCHANGED <<pureVars, threadVars>>

\* The processor loop that does not look at the flag.
ProcLoopNoExit == ProcLoopBody(FALSE)

ProcLoop == ProcLoopBody(exit)

\* The encrypted file is removed, or the disk starts failing reads; the
\* prove loop meets that when it samples the file.
EnvFileFault ==
    /\ pc = "sample"
    /\ enc_file.exists /\ ~enc_file.bad_read
    /\ \E removed \in BOOLEAN :
          enc_file' = IF removed THEN [enc_file EXCEPT !.exists = FALSE]
                      ELSE [enc_file EXCEPT !.bad_read = TRUE]
    /\ UNCHANGED <<pc, meta, loc, storage_keypair, exit, full, proofs, iter, brk>>
    /\ UNCHANGED <<pureVars, slot_chan, respVars>>

Next ==
    \/ SetupGetSegmentConfigOk \/ SetupGetSegmentConfigErr
    \/ PollNoPeers \/ PollRpcErr \/ PollResponse \/ PollCheckExit \/ PollSleep
    \/ SetupPollForSegmentOk \/ SetupPollForSegmentErr
    \/ SetupSelect \/ WindowInsert \/ WaitForSegmentDownload
    \/ RunEncryptLedger \/ RunLoopTop \/ RunCreateSamplingOffsets
    \/ RunSampleOk \/ RunSampleErr \/ RunSubmitMiningProof \/ RunAfterSubmit
    \/ RunPollOk \/ RunPollErr \/ RunRedeemRewards \/ RunAfterRedeem
    \/ RunExitStore
    \/ ThreadSetupFailed \/ ThreadJoin
    \/ ProcPollForSlot \/ ProcLoop
    \/ Close \/ EnvFileFault

Spec == Init /\ [][Next]_vars

\* The steps of the control-loop thread, and those of t_processor.
ThreadNext ==
    \/ SetupGetSegmentConfigOk \/ SetupGetSegmentConfigErr
    \/ PollNoPeers \/ PollRpcErr \/ PollResponse \/ PollCheckExit \/ PollSleep
    \/ SetupPollForSegmentOk \/ SetupPollForSegmentErr
    \/ SetupSelect \/ WaitForSegmentDownload
    \/ RunEncryptLedger \/ RunLoopTop \/ RunCreateSamplingOffsets
    \/ RunSampleOk \/ RunSampleErr \/ RunSubmitMiningProof \/ RunAfterSubmit
    \/ RunPollOk \/ RunPollErr \/ RunRedeemRewards \/ RunAfterRedeem
    \/ RunExitStore
    \/ ThreadSetupFailed \/ ThreadJoin

ProcNext == ProcPollForSlot \/ ProcLoop

\* Every RPC call, receive and sleep returns, and both threads are scheduled.
FairSpec == Spec /\ WF_vars(ThreadNext) /\ WF_vars(ProcNext)

(***************************************************************************)
(* Claims about the segment selector (SpecSel).                             *)
(***************************************************************************)

\* C2: for every signature, turn slot ts and segment width sps with
\* floor(ts/sps) > 0, get_slot_from_signature returns (it does not panic) a
\* multiple of sps that is strictly less than ts.
Thm_C2_SlotMultipleBelowTurn ==
    (sel.done /\ sel.sps > 0 /\ sel.ts \div sel.sps > 0)
        => /\ sel.kind = "ok"
           /\ sel.slot % sel.sps = 0
           /\ sel.slot < sel.ts

\* The selector picked the last complete segment before the turn slot, which
\* is not segment 0.
Wit_C2_LastSegmentPicked ==
    /\ sel.done /\ sel.kind = "ok"
    /\ sel.sps > 0
    /\ sel.slot > 0
    /\ sel.slot = ((sel.ts \div sel.sps) - 1) * sel.sps

\* The integer x the claim describes, given by its bytes: byte 0 of x is
\* sig[0], bytes 1 and 2 are both sig[1], and what lies above is sig[2].
IsPackedIndex(x, sig) ==
    /\ x % 256 = sig[1]
    /\ (x \div 256) % 256 = sig[2]
    /\ (x \div 65536) % 256 = sig[2]
    /\ x \div 16777216 = sig[3]

SelResultIsPackedFormula ==
    (sel.done /\ sel.kind = "ok")
        => LET x == sel.sig[1] + 256 * sel.sig[2] + 65536 * sel.sig[2]
                    + 16777216 * sel.sig[3]
           IN  /\ IsPackedIndex(x, sel.sig)
               /\ sel.slot = (x % (sel.ts \div sel.sps)) * sel.sps

SelIsExample ==
    /\ sel.done
    /\ sel.sps = 100 /\ sel.ts = 1000
    /\ sel.sig[1] = 7 /\ sel.sig[2] = 3 /\ sel.sig[3] = 0

\* C3 as stated: the result is ((sig[0] | sig[1]<<8 | sig[1]<<16 | sig[2]<<24)
\* mod floor(ts/sps)) * sps, and for sps = 100, ts = 1000 and signature bytes
\* starting 7, 3, 0 the result is 900.
Orig_C3_ExampleGives900 ==
    /\ SelResultIsPackedFormula
    /\ SelIsExample => (sel.kind = "ok" /\ sel.slot = 900)

\* C3 as amended: the same formula, and for sps = 100, ts = 1000 and signature
\* bytes starting 7, 3, 0 (whatever byte 3 is) the integer is 197383, which
\* reduces to 3 mod 10, and the result is 300.
Thm_C3_PackedFormulaExample300 ==
    /\ SelResultIsPackedFormula
    /\ SelIsExample => (sel.kind = "ok" /\ sel.slot = 300)

\* The example of the claim, with byte 3 of the signature set to 5.
Wit_C3_ExampleRun ==
    SelIsExample /\ sel.sig[4] = 5 /\ sel.kind = "ok"

(***************************************************************************)
(* Claims about sample_file (SpecSample).                                   *)
(***************************************************************************)
SfBadOffset(i) ==
    /\ i \in 1..Len(sf.offsets)
    /\ sf.file.len >= SAMPLE_SIZE
    /\ sf.offsets[i] > (sf.file.len - 32) \div 32

\* C5: sample_file returns an error, and no digest, when the file is shorter
\* than 32 bytes and when some offset o of the list, at any position and
\* whatever the other offsets, has o > (file_len - 32) / 32.
Thm_C5_ShortFileOrBadOffsetFails ==
    (sf.done /\ (sf.file.len < 32 \/ \E i \in 1..Len(sf.offsets) : SfBadOffset(i)))
        => /\ sf.res.kind = "err"
           /\ sf.res.hash = ZeroHash

\* A two-offset call on a readable file whose first offset is in range and
\* whose second is not ended with "offset too large".
Wit_C5_SecondOffsetRejected ==
    /\ sf.done
    /\ sf.file.exists /\ ~sf.file.bad_read
    /\ Len(sf.offsets) = 2
    /\ ~SfBadOffset(1) /\ SfBadOffset(2)
    /\ sf.res.kind = "err" /\ sf.res.msg = "offset too large"

\* The byte stream the claim describes: for each offset o, in list order, the
\* 32 bytes of the file from byte position o*32 on.
SfExpectedStream ==
    [k \in 1..(32 * Len(sf.offsets)) |->
        FileByte(sf.file, (sf.offsets[((k - 1) \div 32) + 1] * 32) + ((k - 1) % 32))]

\* C6: when sample_file succeeds every sample lies inside the file
\* (o*32 + 32 <= file_len) and the digest is the hash of the samples at byte
\* positions o*32, in list order; no call ends in the failed assertion of a
\* short read, so an accepted offset never reads past the end of the file.
Thm_C6_SamplesInsideFileInOrder ==
    sf.done
        => /\ sf.res.kind # "panic"
           /\ sf.res.kind = "ok"
                => /\ \A i \in 1..Len(sf.offsets) :
                          (sf.offsets[i] * 32) + 32 <= sf.file.len
                   /\ sf.res.hash = <<"sha256", SfExpectedStream>>

\* A successful call with two different offsets, the larger one first, the
\* second sample ending exactly at the end of the file.
Wit_C6_TwoSamplesHashed ==
    /\ sf.done /\ sf.res.kind = "ok"
    /\ Len(sf.offsets) = 2
    /\ sf.offsets[1] > sf.offsets[2]
    /\ (sf.offsets[1] * 32) + 32 = sf.file.len

(***************************************************************************)
(* Claims about setup (SpecSetup2) and about one prove-loop iteration      *)
(* (SpecProve2), each stated of two runs side by side.                      *)
(***************************************************************************)
TwSameFirstTurn ==
    /\ tw.run[1].pc = "selected" /\ tw.run[2].pc = "selected"
    /\ tw.run[1].loc.segment_blockhash = tw.run[2].loc.segment_blockhash
    /\ tw.run[1].loc.segment_slot = tw.run[2].loc.segment_slot
    /\ tw.run[1].loc.slots_per_segment = tw.run[2].loc.slots_per_segment

\* C4: two setup runs with the same storage key that observe the same first
\* turn (blockhash, turn slot, slots_per_segment) select the same start slot
\* (and hold the same signature), whichever RPC peers they asked and however
\* many polls they needed.
Thm_C4_SameTurnSameSlot ==
    TwSameFirstTurn
        => /\ tw.run[1].meta.slot = tw.run[2].meta.slot
           /\ tw.run[1].meta.signature = tw.run[2].meta.signature

\* Two runs that asked different peers and needed a different number of polls
\* observed the same first turn and selected a segment other than segment 0.
Wit_C4_DifferentPeersSameTurn ==
    /\ TwSameFirstTurn
    /\ tw.run[1].loc.node_index # tw.run[2].loc.node_index
    /\ tw.run[1].polls # tw.run[2].polls
    /\ tw.run[1].meta.slot > 0

PvSameInputs ==
    /\ pv[1].file.len = pv[2].file.len
    /\ \A p \in 0..(pv[1].file.len - 1) : FileByte(pv[1].file, p) = FileByte(pv[2].file, p)
    /\ pv[1].meta.blockhash = pv[2].meta.blockhash
    /\ pv[1].meta.num_chacha_blocks = pv[2].meta.num_chacha_blocks

\* C7: two prove-loop iterations with the same encrypted bytes, the same
\* blockhash and the same num_chacha_blocks produce the same sampling offsets
\* and the same sha_state, whatever else their metas hold.
Thm_C7_SameInputsSameShaState ==
    PvSameInputs
        => /\ (pv[1].pc \in {"sample", "sampled"} /\ pv[2].pc \in {"sample", "sampled"})
                => pv[1].meta.sampling_offsets = pv[2].meta.sampling_offsets
           /\ (pv[1].pc = "sampled" /\ pv[2].pc = "sampled")
                => pv[1].meta.sha_state = pv[2].meta.sha_state

\* Two iterations with the same inputs, started with different signatures and
\* different left-over offsets, both computed a digest from a file of more
\* than one cipher block.
Wit_C7_TwoIterationsSampled ==
    /\ PvSameInputs
    /\ pv[1].pc = "sampled" /\ pv[2].pc = "sampled"
    /\ pv[1].meta.signature # pv[2].meta.signature
    /\ pv[1].meta.num_chacha_blocks > 1
    /\ pv[1].meta.sha_state # ZeroHash

(***************************************************************************)
(* Claims about the control loop (Spec).                                    *)
(***************************************************************************)
InPoll == pc \in {"poll_rpc", "poll_check_exit", "poll_sleep", "poll_ret_ok", "poll_ret_err"}

InProveLoop ==
    \/ pc \in {"loop_top", "create_sampling_offsets", "sample", "submit",
               "submit_returned", "redeem", "redeem_returned",
               "run_exit", "run_returned"}
    \/ InPoll /\ loc.caller = "run"

InRun == pc = "encrypt_ledger" \/ InProveLoop

\* C1: once setup has completed no step of run changes meta.signature,
\* meta.slot or meta.slots_per_segment, and in the prove loop nothing of meta
\* changes but blockhash, sampling_offsets and sha_state.
Thm_C1_SegmentFixedAfterSetup ==
    [][/\ InRun => /\ meta'.signature = meta.signature
                   /\ meta'.slot = meta.slot
                   /\ meta'.slots_per_segment = meta.slots_per_segment
       /\ InProveLoop =>
              /\ meta'.num_chacha_blocks = meta.num_chacha_blocks
              /\ meta'.ledger_data_file_encrypted = meta.ledger_data_file_encrypted]_vars

\* The second iteration of the prove loop, under a new turn blockhash, still
\* holds the signature of the first turn's blockhash.
Wit_C1_SecondTurnSameSignature ==
    /\ pc = "submit" /\ iter = 2
    /\ meta.blockhash # loc.segment_blockhash
    /\ meta.signature = Sign(storage_keypair, loc.segment_blockhash)
    /\ meta.slot > 0

\* C8: after every call of create_sampling_offsets, sampling_offsets holds
\* exactly NUM_STORAGE_SAMPLES (4) entries, each below num_chacha_blocks, and
\* they are the ones drawn from the current blockhash: none is carried over.
Thm_C8_FourFreshOffsetsInRange ==
    pc = "sample"
        => /\ Len(meta.sampling_offsets) = 4
           /\ \A i \in 1..Len(meta.sampling_offsets) :
                 /\ meta.sampling_offsets[i] >= 0
                 /\ meta.sampling_offsets[i] < meta.num_chacha_blocks
                 /\ i <= 4 => meta.sampling_offsets[i] =
                        ChaChaRngWord(meta.blockhash, i) % meta.num_chacha_blocks

\* The second call, after a turn with another blockhash left four offsets.
Wit_C8_SecondCall ==
    /\ pc = "sample" /\ iter = 2
    /\ meta.blockhash # loc.segment_blockhash
    /\ meta.num_chacha_blocks > 1

\* The digest of the samples of ledger.enc at the offsets seeded by blockhash b.
ExpectedShaState(b) ==
    <<"sha256",
      [j \in 1..(4 * 32) |->
          FileByte(enc_file,
                   ((ChaChaRngWord(b, ((j - 1) \div 32) + 1) % meta.num_chacha_blocks) * 32)
                   + ((j - 1) % 32))]>>

\* C9: every mining proof that is sent carries a blockhash b together with
\* the sha_state computed from the sampling offsets seeded by that same b;
\* when run reaches submit_mining_proof, meta.sha_state is that of
\* meta.blockhash.
Thm_C9_ProofShaStateOfItsBlockhash ==
    /\ \A k \in 1..Len(proofs) :
          proofs[k].sha_state = ExpectedShaState(proofs[k].blockhash)
    /\ pc = "submit" => meta.sha_state = ExpectedShaState(meta.blockhash)

\* Two proofs were sent, for two turns, with different digests.
Wit_C9_TwoProofsTwoTurns ==
    /\ Len(proofs) = 2
    /\ proofs[1].blockhash # proofs[2].blockhash
    /\ proofs[1].sha_state # proofs[2].sha_state

SampleStepFails == pc = "sample" /\ sample_file(enc_file, meta.sampling_offsets).kind = "err"

PollStepFails == pc = "poll_ret_err" /\ loc.caller = "run"

\* C10: when the sample hash fails, or the poll for the next turn fails, the
\* next step of the control loop leaves the loop; from there it only sets the
\* exit flag and returns: no further offsets, digest, proof or iteration.
Thm_C10_FailureLeavesLoop ==
    [][/\ ((SampleStepFails \/ PollStepFails) /\ pc' # pc) => pc' = "run_exit"
       /\ pc = "run_exit" =>
              /\ pc' \in {"run_exit", "run_returned"}
              /\ meta' = meta /\ proofs' = proofs /\ iter' = iter
       /\ pc' = "run_returned" => exit'
       /\ pc = "run_returned" =>
              /\ pc' \in {"run_returned", "thread_done"}
              /\ exit'
              /\ meta' = meta /\ proofs' = proofs /\ iter' = iter]_vars

\* run returned, the flag set, after the sample hash failed in the second
\* iteration.
Wit_C10_ReturnedAfterSampleError ==
    /\ pc = "run_returned" /\ brk = "sample_err"
    /\ exit
    /\ iter = 2 /\ Len(proofs) = 1

(***************************************************************************)
(* Claims about the failures of the prove loop (Spec).                      *)
(***************************************************************************)
SubmitReturns == pc = "submit_returned" /\ pc' # pc

Orig_C12_EncryptFailureSetsExit ==
    loc.panic = "expect" => (exit /\ pc \in {"run_returned", "thread_done"})

(***************************************************************************)
(* Claims about poll_for_blockhash_and_slot (Spec).                         *)
(***************************************************************************)

\* C13: the poller never returns a turn whose blockhash is the caller's
\* previous_blockhash, and the only responses it passes over (going on to the
\* exit check and the sleep) are those with the previous blockhash or with a
\* turn slot in segment 0: a response with a new blockhash and a valid slot
\* is returned at once.
Thm_C13_PreviousBlockhashNeverReturned ==
    /\ pc = "poll_ret_ok" => loc.turn_blockhash # loc.previous_blockhash
    /\ pc = "poll_check_exit" =>
           \/ loc.turn_blockhash = loc.previous_blockhash
           \/ get_segment_from_slot(loc.turn_slot, PollSps) = 0

\* In the prove loop a response repeats the blockhash of the last proof, with
\* a valid turn slot, and is passed over.
Wit_C13_PreviousBlockhashRejected ==
    /\ pc = "poll_check_exit" /\ loc.caller = "run"
    /\ loc.previous_blockhash # 0
    /\ loc.turn_blockhash = loc.previous_blockhash
    /\ loc.turn_slot \div PollSps # 0

\* C14: a turn the poller returns has floor(turn_slot / slots_per_segment)
\* different from 0; a turn slot strictly between 0 and slots_per_segment is
\* never returned.
Thm_C14_ReturnedTurnHasCompleteSegment ==
    pc = "poll_ret_ok" =>
        /\ loc.turn_slot \div PollSps # 0
        /\ ~(0 < loc.turn_slot /\ loc.turn_slot < PollSps)

\* A response with a new blockhash and a turn slot inside segment 0 is passed
\* over.
Wit_C14_SlotInsideFirstSegmentRejected ==
    /\ pc = "poll_check_exit"
    /\ loc.turn_blockhash # loc.previous_blockhash
    /\ 0 < loc.turn_slot /\ loc.turn_slot < PollSps

PollRoundStep == pc \in {"poll_rpc", "poll_check_exit"} /\ pc' # pc

\* C15 as stated: a round of the poller that runs while the exit flag is set
\* returns no turn and does not sleep; it ends with the error "exit
\* signalled".
Orig_C15_ExitSetRoundAlwaysFails ==
    [][(exit /\ PollRoundStep) =>
          /\ pc' \in {"poll_check_exit", "poll_ret_err"}
          /\ pc' = "poll_ret_err" => loc'.poll_err = "exit signalled"]_vars

\* C15 as amended: a round that reaches the exit check (its response, if any,
\* was passed over and no RPC or parse error ended it) while the flag is set
\* ends with the error "exit signalled" and does not sleep.
Thm_C15_ExitCheckFailsWhenFlagSet ==
    [][(exit /\ pc = "poll_check_exit" /\ pc' # pc) =>
          /\ pc' = "poll_ret_err"
          /\ loc'.poll_err = "exit signalled"]_vars

\* The poll for the next turn has failed with "exit signalled".
Wit_C15_ExitSignalledInProveLoop ==
    /\ pc = "poll_ret_err" /\ loc.caller = "run"
    /\ loc.poll_err = "exit signalled"
    /\ exit

\* C31: a round of the poller that finds the peer snapshot empty issues no
\* RPC (it has no response and no error of its own) and goes to the exit
\* check; with the flag clear the poller sleeps, and after the sleep it reads
\* the peers again; it returns only once the flag is set, with "exit
\* signalled".
Thm_C31_NoPeersRetried ==
    /\ [](loc.rpc_peers = "empty" =>
             /\ pc = "poll_check_exit"
             /\ loc.poll_err = "none")
    /\ [][/\ (loc'.rpc_peers = "empty" /\ loc.rpc_peers # "empty") =>
                /\ pc = "poll_rpc"
                /\ loc'.turn_blockhash = loc.turn_blockhash
                /\ loc'.turn_slot = loc.turn_slot
          /\ (loc.rpc_peers = "empty" /\ pc' # pc) =>
                IF exit
                THEN pc' = "poll_ret_err" /\ loc'.poll_err = "exit signalled"
                ELSE pc' = "poll_sleep" /\ loc'.poll_err = "none"
          /\ (pc = "poll_sleep" /\ pc' # pc) =>
                pc' = "poll_rpc" /\ loc' = loc /\ exit' = exit]_vars

\* The poller of the prove loop found no peer, the flag is clear.
Wit_C31_NoPeersInProveLoop ==
    /\ loc.rpc_peers = "empty" /\ loc.caller = "run"
    /\ ~exit /\ Len(proofs) = 1

\* C32 as stated: when get_segment_config finds no RPC peer, setup does not
\* fail and the exit flag is not set; the query is made again.
Orig_C32_SetupRetriesWithoutPeers ==
    [][(pc = "get_segment_config" /\ loc'.config_err = "No RPC peers...") =>
          /\ pc' = "get_segment_config"
          /\ exit' = exit]_vars

\* C33: get_slot_from_signature panics exactly when floor(ts / sps) = 0;
\* setup reaches it only with a turn of poll_for_segment, for which
\* turn_slot >= slots_per_segment and the modulus floor(ts / sps) is at
\* least 1, so the control loop never meets that panic.
Thm_C33_SelectorPanicUnreachable ==
    /\ \A bh \in Blockhashes, ts \in TurnSlots, sps \in SpsValues :
          (ts \div sps = 0) <=>
              get_slot_from_signature(Sign(storage_keypair, bh), ts, sps).kind
                  = "panic"
    /\ pc = "select" =>
          /\ loc.slots_per_segment >= 1
          /\ loc.segment_slot >= loc.slots_per_segment
          /\ loc.segment_slot \div loc.slots_per_segment >= 1
          /\ ~setup_select_panics(loc, storage_keypair)
    /\ loc.panic # "unwrap"

\* setup is about to select with the smallest turn poll_for_segment lets
\* through: one complete segment.
Wit_C33_SelectWithOneCompleteSegment ==
    /\ pc = "select"
    /\ loc.slots_per_segment = 2 /\ loc.segment_slot = 2

\* C39: the slot get_slot_from_signature returns for a turn is index *
\* slots_per_segment with index below floor(turn_slot / slots_per_segment),
\* so slot + slots_per_segment <= turn_slot: the product is no more than the
\* turn slot, itself a u64.  The step of setup that selects the segment
\* leaves a repair range [slot, slot + slots_per_segment) of slots all below
\* the turn slot, and no other step changes the range.
Thm_C39_SegmentBeforeTurnSlot ==
    /\ [](\A bh \in Blockhashes, ts \in TurnSlots, sps \in SpsValues :
            LET sig == Sign(storage_keypair, bh)
                r == get_slot_from_signature(sig, ts, sps)
            IN  r.kind = "ok" =>
                   /\ r.slot = (segment_index_of(sig) % (ts \div sps)) * sps
                   /\ r.slot + sps <= ts
                   /\ r.slot \in 0..ts)
    /\ [][(pc = "select" /\ pc' = "wait_for_segment_download") =>
             /\ meta'.slots_per_segment = loc.slots_per_segment
             /\ meta'.slot + meta'.slots_per_segment <= loc.segment_slot
             /\ \A s \in (meta'.slot)..(meta'.slot + meta'.slots_per_segment - 1) :
                   s < loc.segment_slot]_vars
    /\ [][pc # "select" =>
             /\ meta'.slot = meta.slot
             /\ meta'.slots_per_segment = meta.slots_per_segment]_vars

\* The last complete segment before the largest turn slot was selected: the
\* repair range [2, 4) ends where the turn slot is.
Wit_C39_RangeEndsAtTurnSlot ==
    /\ pc = "wait_for_segment_download"
    /\ meta.slot = MaxTurnSlot - 2 /\ meta.slots_per_segment = 2
    /\ RepairRange = (MaxTurnSlot - 2)..(MaxTurnSlot - 1)
    /\ slot_chan = <<meta.slot>>

\* C36: with an encrypted file of 64 * num_chacha_blocks bytes and
\* num_chacha_blocks >= 1, none of the offsets create_sampling_offsets has
\* produced is over sample_file's bound, (file_len - 32) / 32, and the sample
\* hash fails neither with "offset too large" nor with "file too short!"; a
\* sample hash that ends the prove loop has failed on the file itself.
WholeBlocksFile ==
    /\ meta.num_chacha_blocks >= 1
    /\ enc_file.len = CHACHA_BLOCK_SIZE * meta.num_chacha_blocks

Thm_C36_OffsetsWithinSampleBound ==
    /\ []((pc = "sample" /\ WholeBlocksFile) =>
            /\ Len(meta.sampling_offsets) = NUM_STORAGE_SAMPLES
            /\ \A i \in 1..Len(meta.sampling_offsets) :
                  /\ meta.sampling_offsets[i] \in 0..(meta.num_chacha_blocks - 1)
                  /\ ~offset_too_large(meta.sampling_offsets[i], enc_file.len)
            /\ sample_file(enc_file, meta.sampling_offsets).msg
                  \notin {"offset too large", "file too short!"})
    /\ [][(pc = "sample" /\ WholeBlocksFile /\ brk' = "sample_err" /\ brk # brk') =>
             sample_file(enc_file, meta.sampling_offsets).msg \in {"open", "io"}]_vars

\* Two cipher blocks, the last of them sampled, and the sample hash computed.
Wit_C36_LastBlockSampled ==
    /\ pc = "submit" /\ WholeBlocksFile
    /\ meta.num_chacha_blocks = 2
    /\ \E i \in 1..Len(meta.sampling_offsets) : meta.sampling_offsets[i] = 1
    /\ sample_file(enc_file, meta.sampling_offsets).kind = "ok"
    /\ meta.sha_state = sample_file(enc_file, meta.sampling_offsets).hash

(***************************************************************************)
(* Claims about the repair phase (Spec).                                    *)
(***************************************************************************)

\* C18: whenever encrypt_ledger is about to be invoked every slot of
\* [meta.slot, meta.slot + slots_per_segment) is full in the blockstore.
Orig_C18_EncryptOnlyFullSegment ==
    pc = "encrypt_ledger" => RepairRange \subseteq full

(***************************************************************************)
(* Claims about the proofs the Archiver submits (Spec).                     *)
(***************************************************************************)
\* C23: every proof submitted carries floor(meta.slot / meta.slots_per_segment)
\* as its segment index and meta.signature as its signature, which is the
\* signature setup computed (the storage keypair's signature of the blockhash
\* of setup's turn, left alone by run); a proof carries the meta.blockhash of
\* the moment it is submitted; all proofs carry the same segment index.
Thm_C23_ProofCarriesSegmentSignatureBlockhash ==
    /\ [](\A i \in 1..Len(proofs) :
            /\ proofs[i].segment_index = meta.slot \div meta.slots_per_segment
            /\ proofs[i].signature = meta.signature
            /\ proofs[i].segment_index = proofs[1].segment_index)
    /\ [][/\ proofs' # proofs
                => /\ Len(proofs') = Len(proofs) + 1
                   /\ SubSeq(proofs', 1, Len(proofs)) = proofs
                   /\ proofs'[Len(proofs')].blockhash = meta.blockhash
          /\ (pc = "select" /\ pc' = "wait_for_segment_download")
                => meta'.signature = Sign(storage_keypair, loc.segment_blockhash)
          /\ pc \notin {"get_segment_config", "poll_rpc", "poll_check_exit",
                         "poll_sleep", "poll_ret_ok", "poll_ret_err", "select"}
                => meta'.signature = meta.signature]_vars

\* Two proofs for two turns, of a segment that is not the first, with
\* two-slot segments.
Wit_C23_TwoProofsSameSegment ==
    /\ Len(proofs) = 2
    /\ meta.slots_per_segment = 2
    /\ proofs[2].segment_index > 0
    /\ proofs[1].blockhash # proofs[2].blockhash
    /\ proofs[1].signature = proofs[2].signature

\* C25: redeem_rewards sends a claim_reward transaction only when the storage
\* account was found, decoded as ArchiverStorage and reported validations;
\* whatever it met (no account, an RPC error, an undecodable account, a
\* failed claim), run goes from it to the top of the loop without a break,
\* and neither step touches the exit flag.
Thm_C25_RedeemClaimsOnlyValidatedNeverFatal ==
    /\ [](loc.redeem.claim # "none"
            => /\ loc.redeem.account = "account"
               /\ loc.redeem.state = "ArchiverStorage"
               /\ loc.redeem.validations > 0)
    /\ [][/\ (pc = "redeem" /\ pc' # pc)
                => (pc' = "redeem_returned" /\ exit' = exit /\ brk' = brk)
          /\ (pc = "redeem_returned" /\ pc' # pc)
                => (pc' = "loop_top" /\ exit' = exit /\ brk' = brk
                    /\ meta' = meta /\ iter' = iter)
          /\ (pc = "loop_top" /\ pc' # pc /\ ~exit)
                => (pc' = "create_sampling_offsets" /\ iter' = iter + 1)]_vars

\* The claim transaction of the first iteration failed; the flag is not set.
Wit_C25_FailedClaimLoopGoesOn ==
    /\ pc = "redeem_returned" /\ iter = 1
    /\ loc.redeem.claim = "tx failed"
    /\ ~exit /\ brk = "none"

\* C24: the proofs submitted come from different prove-loop iterations, in
\* order (an iteration submits at most one), and two proofs of consecutive
\* iterations carry different blockhashes.
Thm_C24_OneProofPerTurn ==
    \A i, j \in 1..Len(proofs) :
        /\ i < j => proofs[i].iter < proofs[j].iter
        /\ proofs[j].iter = proofs[i].iter + 1
              => proofs[j].blockhash # proofs[i].blockhash

\* The first and the second iteration each submitted a proof.
Wit_C24_ProofsOfConsecutiveIterations ==
    /\ Len(proofs) = 2
    /\ proofs[1].iter = 1 /\ proofs[2].iter = 2
    /\ pc = "submit_returned"

(***************************************************************************)
(* Setup and the slot responder, with requests arriving at r_reader: the   *)
(* control-loop thread goes through setup and stops where the segment      *)
(* download begins; t_processor runs from its start.                        *)
(***************************************************************************)
MaxRequests == 3        \* request packets that arrive in all
MaxBatchLen == 2        \* packets of one received batch

\* GetSlotHeight from either address, an unknown variant, a truncated packet.
RequestPackets == {<<GetSlotHeightTag, 1>>, <<GetSlotHeightTag, 2>>, <<1, 1>>,
                   <<GetSlotHeightTag>>}

RequestBatches ==
    UNION {[1..n -> RequestPackets] : n \in 1..MaxBatchLen}

RECURSIVE PacketsIn(_)
PacketsIn(batches) ==
    IF batches = <<>> THEN 0 ELSE Len(Head(batches)) + PacketsIn(Tail(batches))

\* The receiver stage hands a batch of received packets to r_reader.
EnvRequest ==
    /\ \E batch \in RequestBatches :
          /\ Len(proc.handled) + PacketsIn(reqs) + Len(batch) <= MaxRequests
          /\ reqs' = Append(reqs, batch)
    /\ UNCHANGED <<slot_chan, proc, replies>>
    /\ UNCHANGED <<pureVars, threadVars>>

ProcSpecNext ==
    \/ SetupGetSegmentConfigOk \/ SetupGetSegmentConfigErr
    \/ PollNoPeers \/ PollRpcErr \/ PollResponse \/ PollCheckExit \/ PollSleep
    \/ SetupPollForSegmentOk \/ SetupPollForSegmentErr
    \/ SetupSelect \/ ThreadSetupFailed \/ ThreadJoin
    \/ ProcPollForSlot \/ ProcLoop
    \/ Close \/ EnvRequest

SpecProc == Init /\ [][ProcSpecNext]_vars

\* C38: the prove loop calls submit_mining_proof at most once with the exit
\* flag set, wherever in the iteration the flag was set and whatever the RPC
\* node answers; the flag, once set, stays set.
Thm_C38_OneProofAfterExit ==
    /\ [](loc.late_proofs <= 1)
    /\ [](loc.late_proofs = 1 => exit)
    /\ [][/\ exit => exit'
          /\ loc'.late_proofs # loc.late_proofs <=>
                (exit /\ pc = "submit" /\ pc' = "submit_returned")
          /\ loc'.late_proofs # loc.late_proofs =>
                loc'.late_proofs = loc.late_proofs + 1]_vars

\* The flag was set before the first proof was submitted, the poller still
\* returned a new turn, and the loop ended at its next top: one proof sent
\* after the flag was set, run has returned.
Wit_C38_LateProofThenNewTurn ==
    /\ pc = "run_returned" /\ brk = "exit_seen"
    /\ loc.late_proofs = 1 /\ iter = 1 /\ Len(proofs) = 1
    /\ meta.blockhash # loc.segment_blockhash

(***************************************************************************)
(* Claims about the slot responder (SpecProc).                              *)
(***************************************************************************)
WellFormedHandled ==
    SelectSeq(proc.handled,
              LAMBDA p : Len(p) >= 2 /\ p[1] = 0 /\ p[2] \in Addrs)

\* C19: the replies queued to the responder are, in order, one for each
\* well-formed GetSlotHeight(from) request the processor has gone through,
\* each addressed to its `from` with a payload that decodes to the slot setup
\* sent on the slot channel (the slot of ArchiverMeta); there is no other
\* reply.
Thm_C19_OneReplyPerRequestWithSentSlot ==
    /\ Len(replies) = Len(WellFormedHandled)
    /\ \A i \in 1..Len(replies) :
          /\ replies[i].addr = WellFormedHandled[i][2]
          /\ bincode_u64_decode(replies[i].data) = meta.slot

\* Requests from both addresses and a malformed one have been processed.
Wit_C19_TwoAddressesAnswered ==
    /\ Len(proc.handled) = 3 /\ Len(replies) = 2
    /\ replies[1].addr # replies[2].addr
    /\ meta.slot > 0
    /\ bincode_u64_decode(replies[2].data) = meta.slot

IsGetSlotHeight(p) == Len(p) >= 2 /\ p[1] = 0 /\ p[2] \in Addrs

RECURSIVE CountGetSlotHeight(_)
CountGetSlotHeight(packets) ==
    IF packets = <<>> THEN 0
    ELSE (IF IsGetSlotHeight(Head(packets)) THEN 1 ELSE 0)
             + CountGetSlotHeight(Tail(packets))

\* The address of the last GetSlotHeight request of a batch that has one.
RECURSIVE LastGetSlotHeightFrom(_)
LastGetSlotHeightFrom(packets) ==
    IF IsGetSlotHeight(packets[Len(packets)])
    THEN packets[Len(packets)][2]
    ELSE LastGetSlotHeightFrom(SubSeq(packets, 1, Len(packets) - 1))

\* C21: when the processor goes through a batch, a packet that is not a
\* GetSlotHeight request gets no reply and ends nothing: the processor stays
\* in its loop, the exit flag is as it was, and the replies grow by exactly
\* one for each well-formed request of the batch, whether it stands before
\* or after a malformed packet; the batches that wait stay queued.
Thm_C21_MalformedDroppedNotFatal ==
    [][proc'.handled # proc.handled =>
          LET batch == Head(reqs)
              n == CountGetSlotHeight(batch)
          IN  /\ proc'.handled = proc.handled \o batch
              /\ proc'.pc = "loop"
              /\ exit' = exit
              /\ reqs' = Tail(reqs)
              /\ Len(replies') = Len(replies) + n
              /\ SubSeq(replies', 1, Len(replies)) = replies
              /\ n > 0 => replies'[Len(replies')].addr = LastGetSlotHeightFrom(batch)]_vars

\* A packet of an unknown variant was followed by a request from address 2
\* and one from address 1; both requests are answered, the processor is in
\* its loop and the flag is not set.
Wit_C21_AnsweredAfterMalformed ==
    /\ proc.handled = <<(<<1, 1>>), (<<0, 2>>), (<<0, 1>>)>>
    /\ reqs = <<>>
    /\ Len(replies) = 2 /\ replies[1].addr = 2 /\ replies[2].addr = 1
    /\ proc.pc = "loop" /\ ~exit

\* C20: setup sends on the slot channel once, at slot selection; the
\* processor takes its slot from the channel once and keeps it; there is no
\* reply unless the slot was received, so requests that arrive before it wait
\* and a processor that left poll_for_slot on the exit flag ends without a
\* reply.
Thm_C20_NoReplyBeforeSlotReceived ==
    /\ [](replies # <<>> => proc.got)
    /\ [](Len(slot_chan) <= 1)
    /\ []((proc.pc = "done" /\ ~proc.got) => replies = <<>>)
    /\ [][/\ slot_chan' # slot_chan /\ slot_chan' # <<>>
                => (pc = "select" /\ pc' # "select" /\ slot_chan = <<>>
                    /\ ~proc.got /\ slot_chan' = <<meta'.slot>>)
          /\ (proc.got' /\ ~proc.got)
                => (slot_chan # <<>> /\ proc'.slot = Head(slot_chan)
                    /\ replies = <<>>)
          /\ proc.got => (proc.got' /\ proc'.slot = proc.slot /\ slot_chan' = <<>>)
          /\ proc.pc = "poll_for_slot" => replies' = <<>>
          /\ pc' = "select" => pc \in {"select", "poll_ret_ok"}]_vars

\* The flag was set before any slot arrived: the processor has ended with
\* requests waiting and none answered.
Wit_C20_ExitBeforeSlotNoReply ==
    /\ proc.pc = "done" /\ ~proc.got
    /\ reqs # <<>> /\ replies = <<>>
    /\ slot_chan = <<>>

(***************************************************************************)
(* Claims about PinnedVec (SpecPinned).                                     *)
(***************************************************************************)
\* C26: whatever the sequence of push, resize, append, append_pinned and
\* truncate, with or without a DMA backend, pinnable or not, pinned or not,
\* the PinnedVec has the length and, index by index and so in iteration
\* order, the elements of a plain vector driven by the same operations.
Thm_C26_PinnedVecIsAVector ==
    pin.pc = "live" =>
        /\ Len(pin.v.elems) = Len(pin.ref)
        /\ \A i \in 1..Len(pin.ref) : pin.v.elems[i] = pin.ref[i]

\* The run of test_pinned_vec (push(50), resize(2, 10)) on a pinned buffer
\* that had to grow, with a DMA backend.
Wit_C26_PushResizeOnPinned ==
    /\ pin.pc = "live" /\ pin.api /\ pin.v.pinned
    /\ pin.op = "resize" /\ pin.changed
    /\ pin.v.elems = <<50, 10>> /\ pin.ref = <<50, 10>>

\* The regions the buffers of the live PinnedVecs occupy.
LiveRegions ==
    {Region(x) : x \in {y \in {pin.v, pin.o} : y.live}}

\* C27: with a DMA backend the registrar holds, of a PinnedVec, nothing or
\* the region its buffer occupies now; every call of unpin names an address
\* that is registered; and once the PinnedVecs are dropped nothing is
\* registered.
Orig_C27_RegistrarNeverStale ==
    pin.api =>
        /\ pin.reg \subseteq LiveRegions
        /\ \A i \in 1..Len(pin.calls) :
              pin.calls[i].f = "unpin" => pin.calls[i].registered
        /\ (~pin.v.live /\ ~pin.o.live) => pin.reg = {}

GrowOps == {"push", "resize", "append", "append_pinned"}

\* C28: after a push, resize, append or append_pinned (none of which
\* panics): if a DMA backend is present, pinnable is set and the operation
\* left the buffer at another address or with another capacity, then pinned
\* is set and the new region is registered; if the buffer is where and as
\* large as it was, or pinnable is not set, or there is no backend, the
\* operation made no call of pin or unpin.
Thm_C28_RepinnedAfterRealloc ==
    pin.op \in GrowOps =>
        /\ pin.pc = "live"
        /\ (pin.api /\ pin.v.pinnable /\ pin.changed)
              => (pin.v.pinned /\ Region(pin.v) \in pin.reg)
        /\ (~pin.changed \/ ~pin.v.pinnable \/ ~pin.api) => pin.calls = <<>>

\* A pinned buffer was full, a push moved it: the old region was
\* unregistered and the new one registered.
Wit_C28_PushMovedPinnedBuffer ==
    /\ pin.pc = "live" /\ pin.api /\ pin.v.pinnable
    /\ pin.op = "push" /\ pin.changed
    /\ Len(pin.calls) = 2
    /\ pin.calls[1].f = "unpin" /\ pin.calls[2].f = "pin"
    /\ pin.calls[1].ptr # pin.calls[2].ptr
    /\ pin.reg = {Region(pin.v)}

(***************************************************************************)
(* Claims about to_packets_chunked, to_packets and Packets::reset           *)
(* (SpecPackets).                                                           *)
(***************************************************************************)
CeilDiv(a, b) == (a + b - 1) \div b

RECURSIVE SumLen(_)
SumLen(batches) ==
    IF batches = <<>> THEN 0 ELSE Len(Head(batches)) + SumLen(Tail(batches))

\* C29: when to_packets_chunked(xs, chunks) returns, out has
\* ceil(len(xs) / chunks) batches, each of exactly `chunks` packets except
\* the last, which holds what is left (between 1 and chunks); packet j of
\* batch b carries item (b - 1) * chunks + j of xs, and the batches hold
\* len(xs) packets together.  to_packets runs with chunks = NUM_PACKETS: one
\* batch for 1..NUM_PACKETS items, two batches of NUM_PACKETS and 1 packets
\* for NUM_PACKETS + 1 items.  A batch that was reset has length 0.
Thm_C29_ChunkedBatches ==
    /\ pk.pc = "done" =>
          /\ Len(pk.out) = CeilDiv(Len(pk.xs), pk.chunks)
          /\ \A b \in 1..Len(pk.out) :
                /\ Len(pk.out[b]) =
                      IF b < Len(pk.out)
                      THEN pk.chunks
                      ELSE Len(pk.xs) - (b - 1) * pk.chunks
                /\ Len(pk.out[b]) \in 1..pk.chunks
                /\ \A j \in 1..Len(pk.out[b]) :
                      pk.out[b][j] =
                          populate_packet(DefaultPacket,
                                          pk.xs[(b - 1) * pk.chunks + j]).packet
          /\ SumLen(pk.out) = Len(pk.xs)
          /\ pk.fn = "to_packets" =>
                /\ pk.chunks = NUM_PACKETS
                /\ Len(pk.xs) \in 1..NUM_PACKETS => Len(pk.out) = 1
                /\ Len(pk.xs) = NUM_PACKETS + 1 =>
                      /\ Len(pk.out) = 2
                      /\ Len(pk.out[1]) = NUM_PACKETS
                      /\ Len(pk.out[2]) = 1
    /\ pk.reset # 0 => Len(pk.p) = 0

\* to_packets returned two batches for NUM_PACKETS + 1 items, and the full
\* one was reset.
Wit_C29_TwoBatchesFirstReset ==
    /\ pk.pc = "done" /\ pk.fn = "to_packets"
    /\ Len(pk.xs) = NUM_PACKETS + 1
    /\ Len(pk.out) = 2
    /\ pk.reset = 1 /\ Len(pk.out[1]) = NUM_PACKETS /\ pk.p = <<>>

(***************************************************************************)
(* Claims about Pubkey::from_str (SpecPubkey).                              *)
(***************************************************************************)
IsBase58(s) == \A i \in 1..Len(s) : \E d \in 1..Len(ALPHABET) : ALPHABET[d] = s[i]

\* C30: a parse gives Invalid exactly for a string with a character outside
\* the base58 alphabet, whatever its length; a base58 string gives Ok with
\* 32 bytes whose base58 encoding is the string, or WrongSize when the bytes
\* whose encoding is the string are not 32; parsing the encoding of a key
\* gives Ok with the key.
Thm_C30_FromStrBase58ThirtyTwoBytes ==
    ps.pc = "parsed" =>
        /\ ps.res.kind \in {"Ok", "WrongSize", "Invalid"}
        /\ ps.res.kind = "Invalid" <=> ~IsBase58(ps.s)
        /\ ps.res.kind = "Ok" =>
              /\ Len(ps.res.bytes) = PubkeySize
              /\ bs58_encode(ps.res.bytes) = ps.s
        /\ ps.res.kind = "WrongSize" =>
              /\ bs58_encode(bs58_decode(ps.s).bytes) = ps.s
              /\ Len(bs58_decode(ps.s).bytes) # PubkeySize
        /\ (Len(ps.key) = PubkeySize /\ ps.s = bs58_encode(ps.key))
              => ps.res = [kind |-> "Ok", bytes |-> ps.key]

\* The encoding of a key was doubled, cut in half again, and parses to the
\* key (lines 156-163 of the test).
Wit_C30_KeyParsedAfterDoublingAndHalving ==
    /\ ps.pc = "parsed" /\ ps.edits = 2
    /\ Len(ps.key) = PubkeySize
    /\ ps.key[1] = 0 /\ ps.key[3] = 21
    /\ ps.res = [kind |-> "Ok", bytes |-> ps.key]

(***************************************************************************)
(* Claims about download_from_archiver (SpecDownload).                      *)
(***************************************************************************)
DlIncomplete ==
    \E slot \in dl.start_slot..(dl.start_slot + dl.slots_per_segment - 1) :
        slot \notin dl.full

\* C17: download_from_archiver makes at most 120 attempts and is out of its
\* loop after the 120th; it returns Ok(start_slot) only if every slot of
\* [start_slot, start_slot + slots_per_segment) is full; and when it comes
\* out of the loop with the range incomplete it returns the error "Unable
\* to download the full segment".
Thm_C17_DownloadBoundedAndComplete ==
    /\ dl.attempts <= 120
    /\ dl.pc = "download" => dl.attempts < 120
    /\ dl.res = "ok" => (~DlIncomplete /\ dl.ret = dl.start_slot)
    /\ (dl.pc = "returned" /\ DlIncomplete /\ dl.res # "insert_shreds error")
           => dl.res = "Unable to download the full segment"
    /\ (dl.pc = "returned" /\ dl.attempts = 120 /\ DlIncomplete)
           => dl.res = "Unable to download the full segment"

\* The attempt budget is used up with a slot of a two-slot segment missing.
Wit_C17_BudgetExhausted ==
    /\ dl.pc = "returned" /\ dl.attempts = 120
    /\ dl.slots_per_segment = 2
    /\ dl.start_slot \in dl.full /\ DlIncomplete
    /\ dl.res = "Unable to download the full segment"

\* C37: whenever download_from_archiver has returned (Ok, the
\* incomplete-segment error, or an error of insert_shreds) its local exit flag
\* is set and the receiver thread it spawned has been joined.
Orig_C37_ReceiverStoppedOnEveryReturn ==
    dl.pc = "returned" => (dl.exit /\ dl.t_receiver = "joined")

\* C22: get_archiver_segment_slot sends at most 10 requests; when it returns,
\* the slot is the one decoded from the reply to its last request, and every
\* earlier round failed; a round with no reply or with a reply that does not
\* decode as a u64 is followed by another round while fewer than 10 were
\* made; after 10 failed rounds it panics.
Thm_C22_TenSlotRequests ==
    /\ [](dl.tries <= 10)
    /\ [](dl.pc \in {"download", "after_loop", "returned"}
            => /\ slot_reply_decodes(dl.reply)
               /\ dl.start_slot = bincode_u64_decode(dl.reply))
    /\ []((dl.pc = "panicked" /\ dl.res = "Couldn't get segment slot from archiver!")
            => (dl.tries = 10 /\ ~slot_reply_decodes(dl.reply)))
    /\ [][dl.pc = "get_archiver_segment_slot" =>
             /\ (dl'.tries = dl.tries + 1 /\ ~slot_reply_decodes(dl'.reply))
                   => dl'.pc = "get_archiver_segment_slot"
             /\ dl'.tries = dl.tries + 1 => ~slot_reply_decodes(dl.reply)
             /\ dl.tries = 10
                   => (dl'.pc = "panicked"
                       /\ dl'.res = "Couldn't get segment slot from archiver!")]_vars

\* Nine rounds failed and the reply of the tenth decoded to slot 1.
Wit_C22_TenthReplyDecodes ==
    /\ dl.pc = "download" /\ dl.tries = 10 /\ dl.attempts = 0
    /\ dl.start_slot = 1 /\ dl.reply = bincode_u64(1)

(***************************************************************************)
(* Claims about the control-loop thread and its gossip record (Spec).      *)
(***************************************************************************)
\* C34: the gossip record of the Archiver has its TVU address until
\* wait_for_segment_download ends, and has it removed in every state of run
\* (encryption and prove loop); the control loop writes the record once, at
\* the end of wait_for_segment_download, and nowhere else.
Thm_C34_TvuRemovedAfterDownload ==
    /\ [](/\ pc \in {"get_segment_config", "select",
                     "wait_for_segment_download"} => ~loc.tvu_removed
          /\ (InPoll /\ loc.caller = "setup") => ~loc.tvu_removed
          /\ InRun => loc.tvu_removed)
    /\ [][loc'.tvu_removed # loc.tvu_removed =>
             /\ pc = "wait_for_segment_download"
             /\ pc' = "encrypt_ledger"
             /\ loc'.tvu_removed]_vars

\* The prove loop is at work on a proof, the flag is clear, the TVU address
\* is gone.
Wit_C34_ProveLoopWithoutTvu ==
    /\ pc = "submit" /\ ~exit
    /\ loc.tvu_removed

\* C35: when the thread is about to join the workers, after setup failed or
\* after run returned, the exit flag is set: the closure stores it when setup
\* returned an error (whatever the error), and run stores it before it
\* returns; the joins are entered in no other way.
Thm_C35_ExitSetBeforeJoins ==
    /\ [](pc \in {"join_workers", "run_returned"} => exit)
    /\ [][/\ (pc = "setup_failed" /\ pc' # pc) =>
                exit' /\ pc' = "join_workers"
          /\ (pc = "run_exit" /\ pc' # pc) =>
                exit' /\ pc' = "run_returned"
          /\ (pc' = "join_workers" /\ pc # pc') => pc = "setup_failed"
          /\ (pc' = "run_returned" /\ pc # pc') => pc = "run_exit"
          /\ (pc' = "thread_done" /\ pc # pc') =>
                pc \in {"join_workers", "run_returned"} /\ exit]_vars

\* setup got its turn and failed at the send on the slot channel; the
\* thread is at the joins with the flag set.
Wit_C35_JoinAfterFailedSlotSend ==
    /\ pc = "join_workers" /\ exit
    /\ loc.segment_blockhash # 0

(***************************************************************************)
(* Claims about shutdown (FairSpec).                                        *)
(***************************************************************************)
AllTerminated == ThreadEnded /\ proc.pc = "done"

\* C16: once the exit flag is set (by close() or by the thread itself) the
\* control-loop thread and the workers it joins eventually terminate, in
\* whichever state the control loop was.
Thm_C16_ExitLeadsToTermination == exit ~> AllTerminated

\* close() was called while the prove loop ran: the loop saw the flag at its
\* top, run returned, t_processor ended after it had received the slot, and
\* the thread has joined its workers.
Wit_C16_ClosedInProveLoopAndJoined ==
    /\ pc = "thread_done" /\ brk = "exit_seen"
    /\ proc.pc = "done" /\ proc.got
    /\ iter >= 1

====
